---- MODULE Spec2Model ----
(***************************************************************************)
(* Model of the record store of the Remeslnici PWA: the calculation        *)
(* module, the IndexedDB repositories and entry service, the backup        *)
(* service (export / validated atomic import) and the Supabase entry       *)
(* service with its receipt storage.                                       *)
(*                                                                         *)
(* Representation.  A JavaScript value is a record [ty, s, n]: ty is the   *)
(* result of typeof, s the text of a string (or the kind of an object or   *)
(* of a non-finite number) and n the numeric payload.  Finite numbers are  *)
(* exact, counted in thousandths (1500 is 1.5).  An instant is a number of *)
(* seconds.  The text of an ISO-8601 datetime is not spelled out: such a   *)
(* string carries the marker "iso" (local time with offset, as written by  *)
(* toLocalISO) or "isoZ" (as written by Date.toISOString) and the instant  *)
(* it denotes; a UUID string carries the marker "uuid" and its number.     *)
(***************************************************************************)
EXTENDS Integers, Sequences, FiniteSets, TLC

(***************************************************************************)
(* Bounds of the model                                                     *)
(***************************************************************************)
MaxUuid == 3
MaxClock == 1
MaxImports == 1
MaxRecords == 3
MaxExports == 1
MaxGenerated == 2
MaxReloads == 1

(***************************************************************************)
(* JavaScript values                                                       *)
(***************************************************************************)
Str(x) == [ty |-> "string", s |-> x, n |-> 0]
Iso(t) == [ty |-> "string", s |-> "iso", n |-> t]
IsoZ(t) == [ty |-> "string", s |-> "isoZ", n |-> t]
Uuid(k) == [ty |-> "string", s |-> "uuid", n |-> k]
Num(x) == [ty |-> "number", s |-> "", n |-> x]
NaN == [ty |-> "number", s |-> "NaN", n |-> 0]
Infinity == [ty |-> "number", s |-> "Infinity", n |-> 0]
Bool(b) == [ty |-> "boolean", s |-> "", n |-> IF b THEN 1 ELSE 0]
Undefined == [ty |-> "undefined", s |-> "", n |-> 0]
Null == [ty |-> "object", s |-> "null", n |-> 0]
DateObj(t) == [ty |-> "object", s |-> "Date", n |-> t]
InvalidDate == [ty |-> "object", s |-> "InvalidDate", n |-> 0]

\* r.f of a JavaScript object: undefined when the key is absent
Get(r, f) == IF f \in DOMAIN r THEN r[f] ELSE Undefined

\* typeof data === "object" && data !== null, for an element of an array
IsObject(r) == "nonObject" \notin DOMAIN r
NonObject == [nonObject |-> "null"]

\* new Date(value).getTime() for a string value: the instant, or NaN
DateParses(v) == v.ty = "string" /\ v.s \in {"iso", "isoZ"}
DateParse(v) == IF DateParses(v) THEN DateObj(v.n) ELSE InvalidDate

\* JSON.parse(JSON.stringify(v)): what a value becomes in a backup file
JsonValue(v) ==
  IF v.ty = "object" /\ v.s = "Date" THEN IsoZ(v.n)
  ELSE IF v.ty = "object" /\ v.s = "InvalidDate" THEN Null
  ELSE IF v.ty = "number" /\ v.s # "" THEN Null
  ELSE v
JsonRecord(r) == [f \in DOMAIN r |-> JsonValue(r[f])]

(***************************************************************************)
(* Calculation module.  A result is [ok, val, err]: the value returned or  *)
(* the error thrown.                                                       *)
(***************************************************************************)
Ret(x) == [ok |-> TRUE, val |-> x, err |-> ""]
Throw(e) == [ok |-> FALSE, val |-> 0, err |-> e]

\* Math.round(num / den): nearest integer, halves towards +Infinity
RoundDiv(num, den) == (2 * num + den) \div (2 * den)

\* Math.round(a * b * 100) / 100 for a, b >= 0 in thousandths; the product
\* is split (a = 10 * a1 + a0) to stay within 32-bit integers
MulRound2(a, b) ==
  LET a1 == a \div 10
      a0 == a % 10
  IN  ((a1 * b + (a0 * b + 5000) \div 10) \div 1000) * 10

(***************************************************************************)
(* IEEE-754 double arithmetic on non-negative values.  A double is held    *)
(* exactly, as a binary fixed-point numeral: the sequence of its digits in *)
(* base 2^LimbBits, least significant first and without leading zeros,     *)
(* FractionLimbs of them after the point.  Every result is rounded to      *)
(* MantissaBits significant bits, ties to even.                            *)
(***************************************************************************)
MantissaBits == 53
LimbBits == 15
FractionLimbs == 5
Base == 2 ^ LimbBits

RECURSIVE NatLimbs(_)
NatLimbs(n) == IF n = 0 THEN <<>> ELSE <<n % Base>> \o NatLimbs(n \div Base)

RECURSIVE LimbsNat(_)
LimbsNat(x) == IF x = <<>> THEN 0 ELSE Head(x) + Base * LimbsNat(Tail(x))

Zeros(k) == [i \in 1..k |-> 0]

\* without the leading zeros
RECURSIVE Normal(_)
Normal(x) ==
  IF x = <<>> \/ x[Len(x)] # 0 THEN x ELSE Normal(SubSeq(x, 1, Len(x) - 1))

\* x + y + carry
RECURSIVE AddLimbs(_, _, _)
AddLimbs(x, y, carry) ==
  IF x = <<>> /\ y = <<>> THEN (IF carry = 0 THEN <<>> ELSE <<carry>>)
  ELSE LET a == IF x = <<>> THEN 0 ELSE Head(x)
           b == IF y = <<>> THEN 0 ELSE Head(y)
           s == a + b + carry
       IN  <<s % Base>> \o AddLimbs(IF x = <<>> THEN x ELSE Tail(x),
                                   IF y = <<>> THEN y ELSE Tail(y),
                                   s \div Base)

\* x * k + carry for a small k
RECURSIVE TimesSmall(_, _, _)
TimesSmall(x, k, carry) ==
  IF x = <<>> THEN NatLimbs(carry)
  ELSE <<(Head(x) * k + carry) % Base>>
       \o TimesSmall(Tail(x), k, (Head(x) * k + carry) \div Base)

\* number of significant bits of x, and bit i of x (bit 0 is the lowest)
BitLength(x) ==
  IF x = <<>> THEN 0
  ELSE (Len(x) - 1) * LimbBits
       + (CHOOSE k \in 1..LimbBits : 2 ^ (k - 1) <= x[Len(x)] /\ x[Len(x)] < 2 ^ k)
BitOf(x, i) == (x[i \div LimbBits + 1] \div 2 ^ (i % LimbBits)) % 2

\* x with the bits below bit i cleared, and the question whether any was set
ClearBelow(x, i) ==
  [j \in 1..Len(x) |->
     IF j < i \div LimbBits + 1 THEN 0
     ELSE IF j = i \div LimbBits + 1
       THEN (x[j] \div 2 ^ (i % LimbBits)) * 2 ^ (i % LimbBits)
     ELSE x[j]]
AnyBelow(x, i) == ClearBelow(x, i) # x

\* cleared, the value with its lowest drop bits cleared, rounded up or not
RoundedTo(cleared, drop, up) ==
  IF up
    THEN AddLimbs(cleared,
                  Zeros(drop \div LimbBits) \o <<2 ^ (drop % LimbBits)>>, 0)
    ELSE cleared

\* x without its lowest drop bits: round to nearest, ties to even
RoundExcess(x, more, drop) ==
  IF drop <= 0 THEN x
  ELSE RoundedTo(ClearBelow(x, drop), drop,
                 /\ BitOf(x, drop - 1) = 1
                 /\ \/ more
                    \/ AnyBelow(x, drop - 1)
                    \/ BitOf(x, drop) = 1)

\* the double nearest to the exact value x (more is set when digits below
\* the last of x were dropped): round to nearest, ties to even
RoundDouble(x, more) == RoundExcess(x, more, BitLength(x) - MantissaBits)

\* the next k bits after the point of r / d for 0 <= r < d, as a number,
\* and the remainder left after them
RECURSIVE DivideBits(_, _, _)
DivideBits(r, d, k) ==
  IF k = 0 THEN <<0, r>>
  ELSE LET bit == IF 2 * r >= d THEN 1 ELSE 0
           next == DivideBits(2 * r - bit * d, d, k - 1)
       IN  <<bit * 2 ^ (k - 1) + next[1], next[2]>>

\* the first k digits after the point of r / d, most significant first,
\* followed by the remainder left after them
RECURSIVE DivideLimbs(_, _, _)
DivideLimbs(r, d, k) ==
  IF k = 0 THEN <<r>>
  ELSE <<DivideBits(r, d, LimbBits)[1]>>
       \o DivideLimbs(DivideBits(r, d, LimbBits)[2], d, k - 1)

Reverse(s) == [i \in 1..Len(s) |-> s[Len(s) + 1 - i]]

\* the double of whole + 0.digits, rest being what the digits left over
Quotient(whole, digits) ==
  RoundDouble(Normal(Reverse(SubSeq(digits, 1, FractionLimbs)) \o whole),
              digits[FractionLimbs + 1] # 0)

\* the double n / d for integers n >= 0, d > 0: the operator / on two
\* integers, and the value of a decimal literal
DoubleDiv(n, d) ==
  Quotient(NatLimbs(n \div d), DivideLimbs(n % d, d, FractionLimbs))

\* x + y
DoubleAdd(x, y) == RoundDouble(AddLimbs(x, y, 0), FALSE)

\* x * 100
DoubleTimes100(x) == RoundDouble(TimesSmall(x, 100, 0), FALSE)

\* Math.round(x): the nearest integer, halves towards +Infinity
MathRound(x) ==
  (IF Len(x) > FractionLimbs
     THEN LimbsNat(SubSeq(x, FractionLimbs + 1, Len(x))) ELSE 0)
  + (IF Len(x) >= FractionLimbs THEN BitOf(x, FractionLimbs * LimbBits - 1)
     ELSE 0)

\* the exact product x * y, with 2 * FractionLimbs digits after the point
RECURSIVE TimesLimbs(_, _)
TimesLimbs(x, y) ==
  IF x = <<>> THEN <<>>
  ELSE AddLimbs(TimesSmall(y, Head(x), 0), <<0>> \o TimesLimbs(Tail(x), y), 0)

\* x without its last FractionLimbs digits
DropFraction(x) ==
  IF Len(x) <= FractionLimbs THEN <<>>
  ELSE SubSeq(x, FractionLimbs + 1, Len(x))

\* x * y, for a product that is 0 or at least 2^-22
DoubleTimes(x, y) ==
  DropFraction(RoundDouble(Normal(TimesLimbs(x, y)), FALSE))

\* the double written as the decimal n / 1000: a number of the model
Double(n) == DoubleDiv(n, 1000)

\* Away from a tie the double arithmetic and the exact arithmetic round to
\* the same hundredth: the error of the doubles (a few units in the 53rd
\* significant bit) is far below the distance of 100 * value from the
\* nearest half, which is at least 1/10000 for the values of the model.
\* Only an exact tie is computed in doubles, bit by bit.

\* Math.round(n * 100) / 100 for n in thousandths
Round2(x) ==
  IF x >= 0 /\ x % 10 = 5 THEN MathRound(DoubleTimes100(Double(x))) * 10
  ELSE RoundDiv(x, 10) * 10

\* Math.round(hours * 100) / 100 where hours = diffMs / (1000 * 60 * 60)
RoundedHours(diffMs) ==
  IF (diffMs \div 10) % (60 * 60) = (60 * 60) \div 2 /\ diffMs % 10 = 0
  THEN MathRound(DoubleTimes100(DoubleDiv(diffMs, 1000 * 60 * 60))) * 10
  ELSE RoundDiv(diffMs \div 10, 60 * 60) * 10

\* Math.trunc(a * b * 100) / 100
RoundedProductTruncated(a, b) ==
  ((((a \div 10) * b) + (((a % 10) * b) \div 10)) \div 1000) * 10

\* Math.round(a * b * 100) / 100
RoundedProduct(a, b) ==
  IF ((a % 10000) * (b % 10000)) % 10000 = 5000
  THEN MathRound(DoubleTimes100(DoubleTimes(Double(a), Double(b)))) * 10
  ELSE MulRound2(a, b)

\* Math.round((a + b + c) * 100) / 100, added from left to right
RoundedSum(a, b, c) ==
  IF (a + b + c) % 10 = 5
  THEN MathRound(DoubleTimes100(
         DoubleAdd(DoubleAdd(Double(a), Double(b)), Double(c)))) * 10
  ELSE RoundDiv(a + b + c, 10) * 10

calculateDurationInHoursStrict(startTime, endTime) ==
  LET start == DateParse(startTime)
      end == DateParse(endTime)
      diffMs == (end.n - start.n) * 1000
  IN  IF start = InvalidDate THEN Throw("InvalidStartTime")
      ELSE IF end = InvalidDate THEN Throw("InvalidEndTime")
      ELSE IF diffMs <= 0 THEN Throw("EndBeforeStart")
      ELSE Ret(RoundedHours(diffMs))

calculateDurationInHours(startTime, endTime) ==
  LET start == DateParse(startTime)
      end == DateParse(endTime)
      diffMs == (end.n - start.n) * 1000
  IN  IF start = InvalidDate THEN Throw("InvalidStartTime")
      ELSE IF end = InvalidDate THEN Throw("InvalidEndTime")
      ELSE IF diffMs < 0 THEN Throw("EndBeforeStart")
      ELSE Ret(RoundedHours(diffMs))

calculateLaborTotal(hours, hourlyRate) ==
  IF hours < 0 THEN Throw("NegativeHours")
  ELSE IF hourlyRate < 0 THEN Throw("NegativeHourlyRate")
  ELSE Ret(RoundedProduct(hours, hourlyRate))

calculateKmTotal(km, kmRate) ==
  IF km < 0 THEN Throw("NegativeKm")
  ELSE IF kmRate < 0 THEN Throw("NegativeKmRate")
  ELSE Ret(RoundedProduct(km, kmRate))

calculateGrandTotal(laborTotal, kmTotal, expensesTotal) ==
  IF laborTotal < 0 THEN Throw("NegativeLaborTotal")
  ELSE IF kmTotal < 0 THEN Throw("NegativeKmTotal")
  ELSE IF expensesTotal < 0 THEN Throw("NegativeExpensesTotal")
  ELSE Ret(RoundedSum(laborTotal, kmTotal, expensesTotal))

(***************************************************************************)
(* State                                                                   *)
(***************************************************************************)
VARIABLES
  jobs,         \* object store "jobs": the set of stored Job records
  workEntries,  \* object store "workEntries"
  expenses,     \* object store "expenses"
  uuid,         \* number of UUIDs generated so far by crypto.randomUUID()
  clock,        \* the current instant, as read by new Date()
  imp,          \* the importFullBackup call in progress and its transaction
  imports,      \* number of importFullBackup calls made so far
  exp,          \* the exportFullBackup call in progress and its transaction
  repo,         \* the repository call that has just settled
  calc,         \* the calculation call that has just settled
  work,         \* the work page and the localStorage item of its session
  upd,          \* the updateWorkEntry call in progress (entry service)
  del,          \* the deleteWorkEntry call made beside it
  work_entries, \* Supabase table public.work_entries
  expense_rows, \* Supabase table public.expenses
  bucket,       \* paths of the files in the storage bucket "receipts"
  svc           \* the Supabase entry-service call in progress

localVars ==
  <<jobs, workEntries, expenses, clock, imp, imports, exp, repo, calc,
    work, upd, del>>
remoteVars == <<work_entries, expense_rows, bucket, svc>>
vars == <<localVars, uuid, remoteVars>>

(***************************************************************************)
(* Backup document.  A document is [isObject, version, exportedAt, jobs,   *)
(* workEntries, expenses]; each of the three collections is [isArray,      *)
(* items] and an item is a record of JavaScript values, or NonObject.      *)
(* An error is the Error thrown: the violated rule, and what its message   *)
(* names (collection, 0-based index, field, reason, value, computed).      *)
(***************************************************************************)
OK == [rule |-> "none", coll |-> "", index |-> 0, field |-> "", why |-> "",
       val |-> Undefined, computed |-> 0]
Err(rule, coll, index, field, why, val, computed) ==
  [rule |-> rule, coll |-> coll, index |-> index, field |-> field,
   why |-> why, val |-> val, computed |-> computed]
IsErr(e) == e.rule # "none"

\* the first error of a sequence of checks made in order
FirstError(checks) ==
  LET bad == {i \in DOMAIN checks : IsErr(checks[i])}
  IN  IF bad = {} THEN OK
      ELSE checks[CHOOSE i \in bad : \A j \in bad : i <= j]

Arr(items) == [isArray |-> TRUE, items |-> items]
NotArray == [isArray |-> FALSE, items |-> <<>>]

assertFiniteNumber(value, coll, index, field) ==
  IF value.ty # "number"
    THEN Err("field", coll, index, field, "type", Str(value.ty), 0)
  ELSE IF value.s = "NaN"
    THEN Err("field", coll, index, field, "NaN", value, 0)
  ELSE IF value.s # ""
    THEN Err("field", coll, index, field, "Infinity", value, 0)
  ELSE OK

\* assertValidDateString without the parse of the string
assertValidDateStringUnparsed(value, coll, index, field) ==
  IF value.ty # "string"
    THEN Err("field", coll, index, field, "type", Str(value.ty), 0)
  ELSE IF value = Str("")
    THEN Err("field", coll, index, field, "empty", value, 0)
  ELSE OK

assertValidDateString(value, coll, index, field) ==
  IF value.ty # "string"
    THEN Err("field", coll, index, field, "type", Str(value.ty), 0)
  ELSE IF value = Str("")
    THEN Err("field", coll, index, field, "empty", value, 0)
  ELSE IF DateParse(value) = InvalidDate
    THEN Err("field", coll, index, field, "invalidDate", value, 0)
  ELSE OK

assertNonEmptyString(value, coll, index, field) ==
  IF value.ty # "string"
    THEN Err("field", coll, index, field, "type", Str(value.ty), 0)
  ELSE OK

validateJob(data, index) ==
  IF ~IsObject(data)
    THEN Err("notObject", "jobs", index, "", "", Undefined, 0)
  ELSE FirstError(<<
    assertNonEmptyString(Get(data, "id"), "jobs", index, "id"),
    assertNonEmptyString(Get(data, "name"), "jobs", index, "name"),
    assertNonEmptyString(Get(data, "client"), "jobs", index, "client"),
    assertFiniteNumber(Get(data, "defaultHourlyRate"), "jobs", index,
                       "defaultHourlyRate"),
    IF Get(data, "active").ty # "boolean"
      THEN Err("field", "jobs", index, "active", "type",
               Str(Get(data, "active").ty), 0)
      ELSE OK,
    assertValidDateString(Get(data, "createdAt"), "jobs", index, "createdAt")
  >>)

validateWorkEntry(data, index) ==
  IF ~IsObject(data)
    THEN Err("notObject", "workEntries", index, "", "", Undefined, 0)
  ELSE LET c == "workEntries" IN FirstError(<<
    assertNonEmptyString(Get(data, "id"), c, index, "id"),
    assertNonEmptyString(Get(data, "jobId"), c, index, "jobId"),
    assertNonEmptyString(Get(data, "date"), c, index, "date"),
    assertValidDateString(Get(data, "startTime"), c, index, "startTime"),
    assertValidDateString(Get(data, "endTime"), c, index, "endTime"),
    assertValidDateString(Get(data, "createdAt"), c, index, "createdAt"),
    assertFiniteNumber(Get(data, "hourlyRateUsed"), c, index, "hourlyRateUsed"),
    assertFiniteNumber(Get(data, "kilometers"), c, index, "kilometers"),
    assertFiniteNumber(Get(data, "kmRateUsed"), c, index, "kmRateUsed"),
    assertFiniteNumber(Get(data, "laborTotal"), c, index, "laborTotal"),
    assertFiniteNumber(Get(data, "kmTotal"), c, index, "kmTotal"),
    assertFiniteNumber(Get(data, "expensesTotal"), c, index, "expensesTotal"),
    assertFiniteNumber(Get(data, "grandTotal"), c, index, "grandTotal")
  >>)

validateExpense(data, index) ==
  IF ~IsObject(data)
    THEN Err("notObject", "expenses", index, "", "", Undefined, 0)
  ELSE LET c == "expenses" IN FirstError(<<
    assertNonEmptyString(Get(data, "id"), c, index, "id"),
    assertNonEmptyString(Get(data, "workEntryId"), c, index, "workEntryId"),
    assertNonEmptyString(Get(data, "category"), c, index, "category"),
    assertFiniteNumber(Get(data, "amount"), c, index, "amount"),
    assertValidDateString(Get(data, "createdAt"), c, index, "createdAt")
  >>)

\* validateBackup with the version compared by == instead of ===
validateBackupLoose(data) ==
  IF ~data.isObject
    THEN Err("notJsonObject", "", 0, "", "", Undefined, 0)
  ELSE IF data.version \notin {Num(1000), Str("1")}
    THEN Err("version", "", 0, "version", "",
             IF data.version \in {Undefined, Null} THEN Str("chybi")
             ELSE data.version, 0)
  ELSE IF IsErr(assertValidDateString(data.exportedAt, "", 0, "exportedAt"))
    THEN assertValidDateString(data.exportedAt, "", 0, "exportedAt")
  ELSE IF ~data.jobs.isArray
    THEN Err("notArray", "jobs", 0, "", "", Undefined, 0)
  ELSE IF ~data.workEntries.isArray
    THEN Err("notArray", "workEntries", 0, "", "", Undefined, 0)
  ELSE IF ~data.expenses.isArray
    THEN Err("notArray", "expenses", 0, "", "", Undefined, 0)
  ELSE FirstError(
    [i \in 1..Len(data.jobs.items) |->
       validateJob(data.jobs.items[i], i - 1)]
    \o [i \in 1..Len(data.workEntries.items) |->
       validateWorkEntry(data.workEntries.items[i], i - 1)]
    \o [i \in 1..Len(data.expenses.items) |->
       validateExpense(data.expenses.items[i], i - 1)])

validateBackup(data) ==
  IF ~data.isObject
    THEN Err("notJsonObject", "", 0, "", "", Undefined, 0)
  ELSE IF data.version # Num(1000)
    THEN Err("version", "", 0, "version", "",
             IF data.version \in {Undefined, Null} THEN Str("chybi")
             ELSE data.version, 0)
  ELSE IF IsErr(assertValidDateString(data.exportedAt, "", 0, "exportedAt"))
    THEN assertValidDateString(data.exportedAt, "", 0, "exportedAt")
  ELSE IF ~data.jobs.isArray
    THEN Err("notArray", "jobs", 0, "", "", Undefined, 0)
  ELSE IF ~data.workEntries.isArray
    THEN Err("notArray", "workEntries", 0, "", "", Undefined, 0)
  ELSE IF ~data.expenses.isArray
    THEN Err("notArray", "expenses", 0, "", "", Undefined, 0)
  ELSE FirstError(
    [i \in 1..Len(data.jobs.items) |->
       validateJob(data.jobs.items[i], i - 1)]
    \o [i \in 1..Len(data.workEntries.items) |->
       validateWorkEntry(data.workEntries.items[i], i - 1)]
    \o [i \in 1..Len(data.expenses.items) |->
       validateExpense(data.expenses.items[i], i - 1)])

\* ids of the records of one array of the document, in order
IdsOf(items) == [i \in 1..Len(items) |-> Get(items[i], "id")]

assertNoDuplicateIds(ids, storeName) ==
  LET dup == {k \in 1..Len(ids) : \E j \in 1..(k - 1) : ids[j] = ids[k]}
  IN  IF dup = {} THEN OK
      ELSE LET k == CHOOSE i \in dup : \A j \in dup : i <= j
           IN  Err("duplicateId", storeName, 0, "id", "", ids[k], 0)

\* assertReferentialIntegrity with the ids of the stored jobs and work
\* entries accepted as well
assertReferentialIntegrityLive(backup) ==
  LET jobIds == {Get(backup.jobs.items[i], "id") :
                   i \in 1..Len(backup.jobs.items)}
                \cup {j.id : j \in jobs}
      entryIds == {Get(backup.workEntries.items[i], "id") :
                     i \in 1..Len(backup.workEntries.items)}
                  \cup {w.id : w \in workEntries}
  IN  FirstError(
        [i \in 1..Len(backup.workEntries.items) |->
           IF Get(backup.workEntries.items[i], "jobId") \notin jobIds
             THEN Err("referential", "workEntries", i - 1, "jobId", "",
                      Get(backup.workEntries.items[i], "jobId"), 0)
             ELSE OK]
        \o [i \in 1..Len(backup.expenses.items) |->
           IF Get(backup.expenses.items[i], "workEntryId") \notin entryIds
             THEN Err("referential", "expenses", i - 1, "workEntryId", "",
                      Get(backup.expenses.items[i], "workEntryId"), 0)
             ELSE OK])

assertReferentialIntegrity(backup) ==
  LET jobIds == {Get(backup.jobs.items[i], "id") :
                   i \in 1..Len(backup.jobs.items)}
      entryIds == {Get(backup.workEntries.items[i], "id") :
                     i \in 1..Len(backup.workEntries.items)}
  IN  FirstError(
        [i \in 1..Len(backup.workEntries.items) |->
           IF Get(backup.workEntries.items[i], "jobId") \notin jobIds
             THEN Err("referential", "workEntries", i - 1, "jobId", "",
                      Get(backup.workEntries.items[i], "jobId"), 0)
             ELSE OK]
        \o [i \in 1..Len(backup.expenses.items) |->
           IF Get(backup.expenses.items[i], "workEntryId") \notin entryIds
             THEN Err("referential", "expenses", i - 1, "workEntryId", "",
                      Get(backup.expenses.items[i], "workEntryId"), 0)
             ELSE OK])

\* expenseSumByEntry.get(entryId) ?? 0
RECURSIVE expenseSumByEntry(_, _)
expenseSumByEntry(items, weId) ==
  IF items = <<>> THEN 0
  ELSE (IF Get(Head(items), "workEntryId") = weId
          THEN Get(Head(items), "amount").n ELSE 0)
       + expenseSumByEntry(Tail(items), weId)

\* TotalsOfEntry without the comparison of grandTotal
TotalsOfEntryNoGrand(r, index, expenseItems) ==
  LET duration == calculateDurationInHours(Get(r, "startTime"),
                                           Get(r, "endTime"))
      expectedLabor == calculateLaborTotal(duration.val,
                                           Get(r, "hourlyRateUsed").n)
      expectedKm == calculateKmTotal(Get(r, "kilometers").n,
                                     Get(r, "kmRateUsed").n)
      expectedExpensesTotal ==
        Round2(expenseSumByEntry(expenseItems, Get(r, "id")))
      expectedGrand == calculateGrandTotal(expectedLabor.val, expectedKm.val,
                                           expectedExpensesTotal)
      thrown(c) == Err("calculation", "", 0, "", c.err, Undefined, 0)
      mismatch(field, computed) ==
        IF Round2(Get(r, field).n) # Round2(computed)
          THEN Err("totals", "workEntries", index, field, "",
                   Get(r, field), computed)
          ELSE OK
  IN  IF ~duration.ok THEN thrown(duration)
      ELSE IF ~expectedLabor.ok THEN thrown(expectedLabor)
      ELSE IF ~expectedKm.ok THEN thrown(expectedKm)
      ELSE IF ~expectedGrand.ok THEN thrown(expectedGrand)
      ELSE FirstError(<<
        mismatch("laborTotal", expectedLabor.val),
        mismatch("kmTotal", expectedKm.val),
        mismatch("expensesTotal", expectedExpensesTotal) >>)

\* the check of one work entry of assertTotalsConsistency
TotalsOfEntry(r, index, expenseItems) ==
  LET duration == calculateDurationInHours(Get(r, "startTime"),
                                           Get(r, "endTime"))
      expectedLabor == calculateLaborTotal(duration.val,
                                           Get(r, "hourlyRateUsed").n)
      expectedKm == calculateKmTotal(Get(r, "kilometers").n,
                                     Get(r, "kmRateUsed").n)
      expectedExpensesTotal ==
        Round2(expenseSumByEntry(expenseItems, Get(r, "id")))
      expectedGrand == calculateGrandTotal(expectedLabor.val, expectedKm.val,
                                           expectedExpensesTotal)
      thrown(c) == Err("calculation", "", 0, "", c.err, Undefined, 0)
      mismatch(field, computed) ==
        IF Round2(Get(r, field).n) # Round2(computed)
          THEN Err("totals", "workEntries", index, field, "",
                   Get(r, field), computed)
          ELSE OK
  IN  IF ~duration.ok THEN thrown(duration)
      ELSE IF ~expectedLabor.ok THEN thrown(expectedLabor)
      ELSE IF ~expectedKm.ok THEN thrown(expectedKm)
      ELSE IF ~expectedGrand.ok THEN thrown(expectedGrand)
      ELSE FirstError(<<
        mismatch("laborTotal", expectedLabor.val),
        mismatch("kmTotal", expectedKm.val),
        mismatch("expensesTotal", expectedExpensesTotal),
        mismatch("grandTotal", expectedGrand.val) >>)

assertTotalsConsistency(backup) ==
  FirstError([i \in 1..Len(backup.workEntries.items) |->
    TotalsOfEntry(backup.workEntries.items[i], i - 1, backup.expenses.items)])

\* ImportChecks with one duplicate check over the ids of all three arrays
ImportChecksGlobalIds(data) ==
  IF IsErr(validateBackup(data)) THEN validateBackup(data)
  ELSE FirstError(<<
    assertNoDuplicateIds(IdsOf(data.jobs.items)
                         \o IdsOf(data.workEntries.items)
                         \o IdsOf(data.expenses.items), "jobs"),
    assertReferentialIntegrity(data),
    assertTotalsConsistency(data) >>)

\* steps 1-6 of importFullBackup: the error thrown before the transaction
ImportChecks(data) ==
  IF IsErr(validateBackup(data)) THEN validateBackup(data)
  ELSE FirstError(<<
    assertNoDuplicateIds(IdsOf(data.jobs.items), "jobs"),
    assertNoDuplicateIds(IdsOf(data.workEntries.items), "workEntries"),
    assertNoDuplicateIds(IdsOf(data.expenses.items), "expenses"),
    assertReferentialIntegrity(data),
    assertTotalsConsistency(data) >>)

rehydrateJob(raw) == [raw EXCEPT !.createdAt = DateParse(raw.createdAt)]
rehydrateWorkEntry(raw) == [raw EXCEPT !.createdAt = DateParse(raw.createdAt)]
rehydrateExpense(raw) == [raw EXCEPT !.createdAt = DateParse(raw.createdAt)]

(***************************************************************************)
(* Object stores (IndexedDB, keyPath "id")                                 *)
(***************************************************************************)
Put(store, rec) == {r \in store : r.id # rec.id} \cup {rec}
Delete(store, id) == {r \in store : r.id # id}
ByWorkEntryId(store, id) == {e \in store : e.workEntryId = id}

\* position of a key in the key order of the store: "" sorts first
KeyRank(id) == IF id.s = "uuid" THEN id.n ELSE 0

\* getAll(): the records in ascending key order
RECURSIVE GetAll(_)
GetAll(store) ==
  IF store = {} THEN <<>>
  ELSE LET first == CHOOSE r \in store :
                      \A q \in store : KeyRank(r.id) <= KeyRank(q.id)
       IN  <<first>> \o GetAll(store \ {first})

\* number of records stored, all object stores together
StoreSize == Cardinality(jobs) + Cardinality(workEntries) + Cardinality(expenses)

\* the records of a sequence, as a set
Range(seq) == {seq[i] : i \in 1..Len(seq)}

(***************************************************************************)
(* Export                                                                  *)
(***************************************************************************)
exportFullBackup ==
  [isObject |-> TRUE, version |-> Num(1000),
   exportedAt |-> IsoZ(clock),
   jobs |-> Arr(GetAll(jobs)),
   workEntries |-> Arr(GetAll(workEntries)),
   expenses |-> Arr(GetAll(expenses))]

\* the document read back from the file written by downloadBackupFile
JsonItems(items) == [i \in 1..Len(items) |-> JsonRecord(items[i])]
downloadBackupFile(backup) ==
  [backup EXCEPT !.exportedAt = JsonValue(@),
                 !.jobs = Arr(JsonItems(@.items)),
                 !.workEntries = Arr(JsonItems(@.items)),
                 !.expenses = Arr(JsonItems(@.items))]

(***************************************************************************)
(* Documents offered to importFullBackup: the file of an export of the     *)
(* current store or a hand-written sample, as is or edited by hand.        *)
(***************************************************************************)
T0800 == 21600
T1400 == T0800 + 6 * 3600

SampleJob ==
  [id |-> Uuid(101), name |-> Str("Kuchyne"), client |-> Str("Novak"),
   defaultHourlyRate |-> Num(500000), active |-> Bool(TRUE),
   createdAt |-> IsoZ(0)]
SampleEntry ==
  [id |-> Uuid(102), date |-> Str("2025-06-15"),
   startTime |-> Iso(T0800), endTime |-> Iso(T1400), jobId |-> Uuid(101),
   hourlyRateUsed |-> Num(500000), kilometers |-> Num(20000),
   kmRateUsed |-> Num(5000), laborTotal |-> Num(3000000),
   kmTotal |-> Num(100000), expensesTotal |-> Num(150000),
   grandTotal |-> Num(3250000), createdAt |-> IsoZ(0)]
SampleExpense ==
  [id |-> Uuid(103), workEntryId |-> Uuid(102), amount |-> Num(150000),
   category |-> Str("Material"), receiptImageUrl |-> Str(""),
   createdAt |-> IsoZ(0)]
SampleDoc ==
  [isObject |-> TRUE, version |-> Num(1000), exportedAt |-> IsoZ(0),
   jobs |-> Arr(<<SampleJob>>), workEntries |-> Arr(<<SampleEntry>>),
   expenses |-> Arr(<<SampleExpense>>)]
NoDoc ==
  [isObject |-> FALSE, version |-> Undefined, exportedAt |-> Undefined,
   jobs |-> NotArray, workEntries |-> NotArray, expenses |-> NotArray]

JobEdits(r) ==
  { [r EXCEPT !.name = Undefined],
    [r EXCEPT !.createdAt = Str("not-a-date")],
    [r EXCEPT !.name = Str("")],
    [r EXCEPT !.defaultHourlyRate = Num(-1000)] }
EntryEdits(r) ==
  { [r EXCEPT !.jobId = Uuid(100)],
    [r EXCEPT !.jobId = Uuid(1)],
    [r EXCEPT !.grandTotal = Num(@.n + 10)],
    [r EXCEPT !.grandTotal = Num(@.n + 4)],
    [r EXCEPT !.laborTotal = Null],
    [r EXCEPT !.kilometers = NaN],
    [r EXCEPT !.hourlyRateUsed = Infinity],
    [r EXCEPT !.kilometers = Num(-20000), !.kmTotal = Num(-100000),
              !.grandTotal = Num(@.n - 200000)],
    [r EXCEPT !.startTime = Str("8:00")] }
ExpenseEdits(r) ==
  { [r EXCEPT !.amount = Undefined],
    [r EXCEPT !.workEntryId = Uuid(100)],
    [r EXCEPT !.category = Str("")],
    [r EXCEPT !.id = Str("")],
    [r EXCEPT !.createdAt = Num(0)] }

\* doc with its first work entry given the id of its first job, and the
\* expenses of that work entry following it
SharedIdEdit(doc) ==
  LET jobId == doc.jobs.items[1].id
      entryId == doc.workEntries.items[1].id
  IN  [doc EXCEPT
         !.workEntries.items[1].id = jobId,
         !.expenses = Arr([i \in 1..Len(@.items) |->
                             IF @.items[i].workEntryId = entryId
                               THEN [@.items[i] EXCEPT !.workEntryId = jobId]
                               ELSE @.items[i]])]

\* the documents obtained from doc by one hand edit
EditsOf(doc) ==
  { NoDoc,
    SharedIdEdit(doc),
    [doc EXCEPT !.jobs.items[1].name = Str(""),
                !.workEntries.items[1].grandTotal = Num(@.n + 10)],
    [doc EXCEPT !.jobs = Arr(@.items \o <<@.items[1]>>),
                !.expenses.items[1].amount = Undefined],
    [doc EXCEPT !.workEntries.items[1].jobId = Uuid(100),
                !.workEntries.items[1].kmTotal = Num(@.n + 10)],
    [doc EXCEPT !.version = Num(2000)],
    [doc EXCEPT !.version = Undefined],
    [doc EXCEPT !.version = Null],
    [doc EXCEPT !.version = Str("1")],
    [doc EXCEPT !.version = Num(2000), !.exportedAt = Str(""),
                !.jobs = NotArray],
    [doc EXCEPT !.exportedAt = Str("")],
    [doc EXCEPT !.expenses = NotArray],
    [doc EXCEPT !.workEntries = Arr(<<>>)] }
  \cup { [doc EXCEPT !.jobs = Arr(@.items \o <<@.items[i]>>)] :
           i \in 1..Len(doc.jobs.items) }
  \cup { [doc EXCEPT !.jobs.items[i] = NonObject] :
           i \in 1..Len(doc.jobs.items) }
  \cup UNION { { [doc EXCEPT !.jobs.items[i] = e] :
                   e \in JobEdits(doc.jobs.items[i]) } :
               i \in 1..Len(doc.jobs.items) }
  \cup UNION { { [doc EXCEPT !.workEntries.items[i] = e] :
                   e \in EntryEdits(doc.workEntries.items[i]) } :
               i \in 1..Len(doc.workEntries.items) }
  \cup UNION { { [doc EXCEPT !.expenses.items[i] = e] :
                   e \in ExpenseEdits(doc.expenses.items[i]) } :
               i \in 1..Len(doc.expenses.items) }

(***************************************************************************)
(* importFullBackup.  imp.pc: "idle" (no call), "tx" (checks passed, the   *)
(* readwrite transaction is open: reqs are the requests not yet executed   *)
(* and imp.jobs, imp.workEntries, imp.expenses the content as seen inside  *)
(* the transaction), "committed", "aborted" (the transaction failed or the *)
(* page was closed), "failed" (a check threw err).  imp.prior records the  *)
(* content of the three object stores when the call was made.              *)
(***************************************************************************)
ImpIdle ==
  [pc |-> "idle", doc |-> NoDoc, err |-> OK, isExport |-> FALSE,
   reqs |-> <<>>, jobs |-> {}, workEntries |-> {}, expenses |-> {},
   prior |-> <<{}, {}, {}>>]

Req(op, store, rec) == [op |-> op, store |-> store, rec |-> rec]

\* ImportRequests without the three clear() calls
ImportRequestsNoClear(backup) ==
  [i \in 1..Len(backup.jobs.items) |->
     Req("put", "jobs", rehydrateJob(backup.jobs.items[i]))]
  \o [i \in 1..Len(backup.workEntries.items) |->
        Req("put", "workEntries",
            rehydrateWorkEntry(backup.workEntries.items[i]))]
  \o [i \in 1..Len(backup.expenses.items) |->
        Req("put", "expenses", rehydrateExpense(backup.expenses.items[i]))]

\* step 7-8 of importFullBackup: the requests issued on the transaction
ImportRequests(backup) ==
  <<Req("clear", "jobs", NonObject), Req("clear", "workEntries", NonObject),
    Req("clear", "expenses", NonObject)>>
  \o [i \in 1..Len(backup.jobs.items) |->
        Req("put", "jobs", rehydrateJob(backup.jobs.items[i]))]
  \o [i \in 1..Len(backup.workEntries.items) |->
        Req("put", "workEntries",
            rehydrateWorkEntry(backup.workEntries.items[i]))]
  \o [i \in 1..Len(backup.expenses.items) |->
        Req("put", "expenses", rehydrateExpense(backup.expenses.items[i]))]

\* the effect of one request on an object store
Apply(req, name, store) ==
  IF req.store # name THEN store
  ELSE IF req.op = "clear" THEN {}
  ELSE Put(store, req.rec)

importFullBackup(data, isExport) ==
  /\ imp.pc = "idle" /\ repo.pc = "idle" /\ imports < MaxImports
  /\ imports' = imports + 1
  /\ IF IsErr(ImportChecks(data))
       THEN imp' = [ImpIdle EXCEPT !.pc = "failed", !.doc = data,
                                   !.err = ImportChecks(data),
                                   !.isExport = isExport,
                                   !.prior = <<jobs, workEntries, expenses>>]
       ELSE imp' = [pc |-> "tx", doc |-> data, err |-> OK,
                    isExport |-> isExport, reqs |-> ImportRequests(data),
                    jobs |-> jobs, workEntries |-> workEntries,
                    expenses |-> expenses,
                    prior |-> <<jobs, workEntries, expenses>>]
  /\ UNCHANGED <<jobs, workEntries, expenses, uuid, clock, exp, repo, calc, work, upd, del, remoteVars>>

\* the user imports the file of an export just made, unmodified
ImportExport == importFullBackup(downloadBackupFile(exportFullBackup), TRUE)

\* the user imports the sample document, as is or edited
ImportEdited ==
  \E data \in {SampleDoc} \cup EditsOf(SampleDoc) :
    importFullBackup(data, FALSE)

\* the user imports the file of an export just made, with the content of
\* its workEntries array deleted ("workEntries": [])
ImportEmptied ==
  importFullBackup([downloadBackupFile(exportFullBackup)
                      EXCEPT !.workEntries = Arr(<<>>)], FALSE)

\* ImportRequest with every clear and put made through the database handle
\* (db.clear, db.put), each in a transaction of its own
ImportRequestDirect ==
  /\ imp.pc = "tx" /\ imp.reqs # <<>>
  /\ jobs' = Apply(Head(imp.reqs), "jobs", jobs)
  /\ workEntries' = Apply(Head(imp.reqs), "workEntries", workEntries)
  /\ expenses' = Apply(Head(imp.reqs), "expenses", expenses)
  /\ imp' = [imp EXCEPT
       !.reqs = Tail(@),
       !.jobs = Apply(Head(imp.reqs), "jobs", @),
       !.workEntries = Apply(Head(imp.reqs), "workEntries", @),
       !.expenses = Apply(Head(imp.reqs), "expenses", @)]
  /\ UNCHANGED <<uuid, clock, imports, exp, repo, calc, work, upd, del, remoteVars>>

\* the transaction executes its next request
ImportRequest ==
  /\ imp.pc = "tx" /\ imp.reqs # <<>>
  /\ imp' = [imp EXCEPT
       !.reqs = Tail(@),
       !.jobs = Apply(Head(imp.reqs), "jobs", @),
       !.workEntries = Apply(Head(imp.reqs), "workEntries", @),
       !.expenses = Apply(Head(imp.reqs), "expenses", @)]
  /\ UNCHANGED <<jobs, workEntries, expenses, uuid, clock, imports, exp, repo, calc, work, upd, del, remoteVars>>

\* tx.done resolves: the content seen inside the transaction becomes the store
ImportCommit ==
  /\ imp.pc = "tx" /\ imp.reqs = <<>>
  /\ jobs' = imp.jobs
  /\ workEntries' = imp.workEntries
  /\ expenses' = imp.expenses
  /\ imp' = [imp EXCEPT !.pc = "committed"]
  /\ UNCHANGED <<uuid, clock, imports, exp, repo, calc, work, upd, del, remoteVars>>

\* a request fails or the page is closed: the transaction aborts
ImportAbort ==
  /\ imp.pc = "tx"
  /\ imp' = [imp EXCEPT !.pc = "aborted", !.reqs = <<>>]
  /\ UNCHANGED <<jobs, workEntries, expenses, uuid, clock, imports, exp, repo, calc, work, upd, del, remoteVars>>

\* the promise of importFullBackup settles
ImportReturn ==
  /\ imp.pc \in {"committed", "aborted", "failed"}
  /\ imp' = ImpIdle
  /\ UNCHANGED <<jobs, workEntries, expenses, uuid, clock, imports, exp, repo, calc, work, upd, del, remoteVars>>

(***************************************************************************)
(* exportFullBackup as the steps of its readonly transaction.  A readonly  *)
(* IndexedDB transaction sees the content its object stores had when it    *)
(* started: writes of transactions that commit later are not visible to    *)
(* its requests.  exp.pc: "idle", "tx" (the transaction is open and got of *)
(* its three getAll requests have been executed), "done" (the promise is   *)
(* resolved with exp.doc).  exp.snap is the content seen by the            *)
(* transaction, exp.calls the number of calls made so far.                 *)
(***************************************************************************)
ExpIdle ==
  [pc |-> "idle", calls |-> 0, got |-> 0, snap |-> <<{}, {}, {}>>,
   read |-> <<<<>>, <<>>, <<>>>>, doc |-> NoDoc]

\* db.transaction(["jobs", "workEntries", "expenses"], "readonly")
ExportOpen ==
  /\ exp.pc = "idle" /\ exp.calls < MaxExports
  /\ exp' = [ExpIdle EXCEPT !.pc = "tx", !.calls = exp.calls + 1,
                            !.snap = <<jobs, workEntries, expenses>>]
  /\ UNCHANGED <<jobs, workEntries, expenses, uuid, clock, imp, imports,
                 repo, calc, work, upd, del, remoteVars>>

\* ExportGetAll with each getAll made through the database handle
\* (db.getAll), in a transaction of its own
ExportGetAllDirect ==
  /\ exp.pc = "tx" /\ exp.got < 3
  /\ exp' = [exp EXCEPT
       !.got = @ + 1,
       !.read[exp.got + 1] =
          GetAll(<<jobs, workEntries, expenses>>[exp.got + 1])]
  /\ UNCHANGED <<jobs, workEntries, expenses, uuid, clock, imp, imports,
                 repo, calc, work, upd, del, remoteVars>>

\* the transaction executes its next getAll request: jobs, workEntries,
\* expenses in the order in which they were issued
ExportGetAll ==
  /\ exp.pc = "tx" /\ exp.got < 3
  /\ exp' = [exp EXCEPT
       !.got = @ + 1,
       !.read[exp.got + 1] = GetAll(exp.snap[exp.got + 1])]
  /\ UNCHANGED <<jobs, workEntries, expenses, uuid, clock, imp, imports,
                 repo, calc, work, upd, del, remoteVars>>

\* tx.done resolves and the document is returned
ExportDone ==
  /\ exp.pc = "tx" /\ exp.got = 3
  /\ exp' = [exp EXCEPT
       !.pc = "done",
       !.doc = [isObject |-> TRUE, version |-> Num(1000),
                exportedAt |-> IsoZ(clock), jobs |-> Arr(exp.read[1]),
                workEntries |-> Arr(exp.read[2]),
                expenses |-> Arr(exp.read[3])]]
  /\ UNCHANGED <<jobs, workEntries, expenses, uuid, clock, imp, imports,
                 repo, calc, work, upd, del, remoteVars>>

\* the caller takes the document
ExportReturn ==
  /\ exp.pc = "done"
  /\ exp' = [ExpIdle EXCEPT !.calls = exp.calls]
  /\ UNCHANGED <<jobs, workEntries, expenses, uuid, clock, imp, imports,
                 repo, calc, work, upd, del, remoteVars>>

(***************************************************************************)
(* Job repository                                                          *)
(***************************************************************************)
JobInputs ==
  { [name |-> Str("Kuchyne"), client |-> Str("Novak"),
     defaultHourlyRate |-> Num(500000), active |-> Bool(TRUE)] }
JobRates == {Num(650000)}

\* repo: "idle", or the settled call: its operation, object store and
\* argument, the error thrown ("" when it returned) and the content of the
\* three object stores when the call was made.  Calls are made one at a time:
\* the next operation starts when the caller has taken the result.
RepoIdle ==
  [pc |-> "idle", op |-> "none", store |-> "", rec |-> [id |-> Uuid(0)],
   err |-> "", prior |-> <<{}, {}, {}>>]
Returned(op, store, rec) ==
  [pc |-> "done", op |-> op, store |-> store, rec |-> rec, err |-> "",
   prior |-> <<jobs, workEntries, expenses>>]
Thrown(op, store, rec, err) ==
  [pc |-> "thrown", op |-> op, store |-> store, rec |-> rec, err |-> err,
   prior |-> <<jobs, workEntries, expenses>>]

JobCreate(data) ==
  LET job == [id |-> Uuid(uuid + 1), name |-> data.name,
              client |-> data.client,
              defaultHourlyRate |-> data.defaultHourlyRate,
              active |-> data.active, createdAt |-> DateObj(clock)]
  IN  /\ imp.pc = "idle" /\ repo.pc = "idle"
      /\ uuid < MaxUuid /\ StoreSize < MaxRecords
      /\ uuid' = uuid + 1
      /\ jobs' = Put(jobs, job)
      /\ repo' = Returned("create", "jobs", job)
      /\ UNCHANGED <<workEntries, expenses, clock, imp, imports, exp,
                     calc, work, upd, del, remoteVars>>

\* JobUpdate without the lookup of the existing record
JobUpdateUpsert(job) ==
  /\ imp.pc = "idle" /\ repo.pc = "idle"
  /\ jobs' = Put(jobs, job)
  /\ repo' = Returned("update", "jobs", job)
  /\ UNCHANGED <<workEntries, expenses, uuid, clock, imp, imports, exp,
                 calc, work, upd, del, remoteVars>>

JobUpdate(job) ==
  /\ imp.pc = "idle" /\ repo.pc = "idle"
  /\ IF \E existing \in jobs : existing.id = job.id
       THEN /\ jobs' = Put(jobs, job)
            /\ repo' = Returned("update", "jobs", job)
       ELSE /\ repo' = Thrown("update", "jobs", job, "JobNotFound")
            /\ UNCHANGED jobs
  /\ UNCHANGED <<workEntries, expenses, uuid, clock, imp, imports, exp,
                 calc, work, upd, del, remoteVars>>

\* JobRemove deleting the work entries of the job and their expenses as well
JobRemoveCascade(id) ==
  /\ imp.pc = "idle" /\ repo.pc = "idle"
  /\ jobs' = Delete(jobs, id)
  /\ workEntries' = {w \in workEntries : w.jobId # id}
  /\ expenses' = {e \in expenses :
                    \E w \in workEntries : w.id = e.workEntryId /\ w.jobId # id}
  /\ repo' = Returned("remove", "jobs", [id |-> id])
  /\ UNCHANGED <<uuid, clock, imp, imports, exp, calc, work, upd, del, remoteVars>>

JobRemove(id) ==
  /\ imp.pc = "idle" /\ repo.pc = "idle"
  /\ jobs' = Delete(jobs, id)
  /\ repo' = Returned("remove", "jobs", [id |-> id])
  /\ UNCHANGED <<workEntries, expenses, uuid, clock, imp, imports, exp,
                 calc, work, upd, del, remoteVars>>

\* update of the work entry repository
WorkEntryUpdate(entry) ==
  /\ imp.pc = "idle" /\ repo.pc = "idle"
  /\ IF \E existing \in workEntries : existing.id = entry.id
       THEN /\ workEntries' = Put(workEntries, entry)
            /\ repo' = Returned("update", "workEntries", entry)
       ELSE /\ repo' = Thrown("update", "workEntries", entry,
                              "WorkEntryNotFound")
            /\ UNCHANGED workEntries
  /\ UNCHANGED <<jobs, expenses, uuid, clock, imp, imports, exp, calc, work, upd, del, remoteVars>>

\* update of the expense repository
ExpenseUpdate(expense) ==
  /\ imp.pc = "idle" /\ repo.pc = "idle"
  /\ IF \E existing \in expenses : existing.id = expense.id
       THEN /\ expenses' = Put(expenses, expense)
            /\ repo' = Returned("update", "expenses", expense)
       ELSE /\ repo' = Thrown("update", "expenses", expense,
                              "ExpenseNotFound")
            /\ UNCHANGED expenses
  /\ UNCHANGED <<jobs, workEntries, uuid, clock, imp, imports, exp,
                 calc, work, upd, del, remoteVars>>

\* the records offered to the update of each repository: a stored record
\* with one field changed, or a record under an id that is not stored
\* (never generated, or generated and removed since)
JobUpdates ==
  { [j EXCEPT !.defaultHourlyRate = rate] : j \in jobs, rate \in JobRates }
  \cup { [rehydrateJob(SampleJob) EXCEPT !.id = Uuid(k)] : k \in 1..uuid }
  \cup { rehydrateJob(SampleJob) }
WorkEntryUpdates ==
  { [e EXCEPT !.kilometers = Num(30000)] : e \in workEntries }
  \cup { rehydrateWorkEntry(SampleEntry) }
ExpenseUpdates ==
  { [x EXCEPT !.amount = Num(1000)] : x \in expenses }
  \cup { rehydrateExpense(SampleExpense) }

\* the caller takes the result of the repository call
RepoReturn ==
  /\ repo.pc \in {"done", "thrown"}
  /\ repo' = RepoIdle
  /\ UNCHANGED <<jobs, workEntries, expenses, uuid, clock, imp, imports, exp,
                 calc, work, upd, del, remoteVars>>

(***************************************************************************)
(* Entry service over IndexedDB                                            *)
(***************************************************************************)
RECURSIVE SumAmounts(_)
SumAmounts(exps) ==
  IF exps = <<>> THEN 0 ELSE Head(exps).amount.n + SumAmounts(Tail(exps))

\* "Compute totals": the four totals, or the error the calculation throws
ComputeTotals(input, exps) ==
  LET hours == calculateDurationInHours(input.startTime, input.endTime)
      laborTotal == calculateLaborTotal(hours.val, input.hourlyRateUsed.n)
      kmTotal == calculateKmTotal(input.kilometers.n, input.kmRateUsed.n)
      expensesTotal == SumAmounts(exps)
      grandTotal == calculateGrandTotal(laborTotal.val, kmTotal.val,
                                        expensesTotal)
      thrown == IF ~hours.ok THEN hours.err
                ELSE IF ~laborTotal.ok THEN laborTotal.err
                ELSE IF ~kmTotal.ok THEN kmTotal.err
                ELSE IF ~grandTotal.ok THEN grandTotal.err
                ELSE ""
  IN  [ok |-> thrown = "", err |-> thrown,
       laborTotal |-> Num(laborTotal.val), kmTotal |-> Num(kmTotal.val),
       expensesTotal |-> Num(expensesTotal),
       grandTotal |-> Num(grandTotal.val)]

EntryRecord(id, input, totals, createdAt) ==
  [id |-> id, date |-> input.date, startTime |-> input.startTime,
   endTime |-> input.endTime, jobId |-> input.jobId,
   hourlyRateUsed |-> input.hourlyRateUsed,
   kilometers |-> input.kilometers, kmRateUsed |-> input.kmRateUsed,
   laborTotal |-> totals.laborTotal, kmTotal |-> totals.kmTotal,
   expensesTotal |-> totals.expensesTotal, grandTotal |-> totals.grandTotal,
   createdAt |-> createdAt]

\* expenseRecords: input i gets the UUID number first + i
ExpenseRecords(exps, first, entryId, createdAt) ==
  { [id |-> Uuid(first + i), workEntryId |-> entryId,
     amount |-> exps[i].amount, category |-> exps[i].category,
     receiptImageUrl |-> exps[i].receiptImageUrl, createdAt |-> createdAt] :
    i \in 1..Len(exps) }

ExpenseInputOf(amount) ==
  [amount |-> Num(amount), category |-> Str("Material"),
   receiptImageUrl |-> Str("")]
ExpenseInputs ==
  { <<>>, <<ExpenseInputOf(150000)>>,
    <<ExpenseInputOf(150000), ExpenseInputOf(4)>> }

\* the forms offer the stored jobs; times are 08:00 and 14:00 of one day
WorkEntryInputs ==
  { [date |-> Str("2025-06-15"), startTime |-> Iso(t[1]),
     endTime |-> Iso(t[2]), jobId |-> j.id,
     hourlyRateUsed |-> j.defaultHourlyRate, kilometers |-> Num(20000),
     kmRateUsed |-> Num(5000)] :
    t \in {<<T0800, T1400>>, <<T0800, T0800>>, <<T1400, T0800>>},
    j \in jobs }

createWorkEntry(input, exps, txFails) ==
  LET totals == ComputeTotals(input, exps)
      entry == EntryRecord(Uuid(uuid + 1), input, totals, DateObj(clock))
      expenseRecords ==
        ExpenseRecords(exps, uuid + 1, entry.id, DateObj(clock))
  IN  /\ imp.pc = "idle" /\ repo.pc = "idle"
      /\ uuid + 1 + Len(exps) <= MaxUuid
      /\ StoreSize + 1 + Len(exps) <= MaxRecords
      /\ IF ~totals.ok
           THEN UNCHANGED <<workEntries, expenses, uuid>>
           ELSE /\ uuid' = uuid + 1 + Len(exps)
                /\ IF txFails
                     THEN UNCHANGED <<workEntries, expenses>>
                     ELSE /\ workEntries' = Put(workEntries, entry)
                          /\ expenses' = expenses \cup expenseRecords
      /\ UNCHANGED <<jobs, clock, imp, imports, exp, repo, calc, upd, del, remoteVars>>

updateWorkEntry(id, input, exps, txFails) ==
  LET totals == ComputeTotals(input, exps)
      existing == CHOOSE e \in workEntries : e.id = id
      entry == EntryRecord(id, input, totals, existing.createdAt)
      expenseRecords == ExpenseRecords(exps, uuid, id, DateObj(clock))
      oldExpenses == ByWorkEntryId(expenses, id)
  IN  /\ imp.pc = "idle" /\ repo.pc = "idle"
      /\ uuid + Len(exps) <= MaxUuid
      /\ StoreSize - Cardinality(oldExpenses) + Len(exps) <= MaxRecords
      /\ \E e \in workEntries : e.id = id
      /\ IF ~totals.ok
           THEN UNCHANGED <<workEntries, expenses, uuid>>
           ELSE /\ uuid' = uuid + Len(exps)
                /\ IF txFails
                     THEN UNCHANGED <<workEntries, expenses>>
                     ELSE /\ expenses' =
                               (expenses \ oldExpenses) \cup expenseRecords
                          /\ workEntries' = Put(workEntries, entry)
      /\ UNCHANGED <<jobs, clock, imp, imports, exp, repo, calc, work, upd, del, remoteVars>>

deleteWorkEntry(id, txFails) ==
  /\ imp.pc = "idle" /\ repo.pc = "idle"
  /\ IF txFails
       THEN UNCHANGED <<workEntries, expenses>>
       ELSE /\ expenses' = expenses \ ByWorkEntryId(expenses, id)
            /\ workEntries' = Delete(workEntries, id)
  /\ UNCHANGED <<jobs, uuid, clock, imp, imports, exp, repo, calc, work, upd,
                 remoteVars>>

(***************************************************************************)
(* updateWorkEntry step by step, beside a deleteWorkEntry.  upd.pc: "idle" *)
(* (no call), "tx" (the entry was found by db.get, the records are built   *)
(* and the readwrite transaction is requested), "done", "thrown".  del     *)
(* records the deleteWorkEntry call that has settled.  Readwrite           *)
(* transactions over the same object stores run one after the other, each  *)
(* as a whole.                                                             *)
(***************************************************************************)
NoEntry == [none |-> TRUE]
NoInput ==
  [date |-> Str(""), startTime |-> Str(""), endTime |-> Str(""),
   jobId |-> Uuid(0), hourlyRateUsed |-> Num(0), kilometers |-> Num(0),
   kmRateUsed |-> Num(0)]
UpdIdle == [pc |-> "idle", id |-> Undefined, input |-> NoInput, exps |-> <<>>,
            entry |-> NoEntry, expenseRecords |-> {}, err |-> ""]
DelIdle == [pc |-> "idle", id |-> Undefined]

\* a document of one job and two work entries, each with one expense
TwoEntryDoc ==
  [SampleDoc EXCEPT
     !.workEntries = Arr(<<SampleEntry, [SampleEntry EXCEPT !.id = Uuid(104)]>>),
     !.expenses = Arr(<<SampleExpense,
                        [SampleExpense EXCEPT !.id = Uuid(105),
                                              !.workEntryId = Uuid(104)]>>)]

\* the ids of the work entries of TwoEntryDoc
TwoEntryIds == {Uuid(102), Uuid(104)}

\* updateWorkEntry up to its transaction: db.get, the totals, the records
updateWorkEntryCheck(id, input, exps) ==
  LET totals == ComputeTotals(input, exps)
      found == \E e \in workEntries : e.id = id
      existing == CHOOSE e \in workEntries : e.id = id
  IN  /\ upd.pc = "idle" /\ imp.pc = "idle" /\ repo.pc = "idle"
      /\ uuid + Len(exps) <= MaxUuid
      /\ IF ~found
           THEN /\ upd' = [UpdIdle EXCEPT !.pc = "thrown", !.id = id,
                                          !.input = input, !.exps = exps,
                                          !.err = "WorkEntry not found"]
                /\ UNCHANGED uuid
           ELSE IF ~totals.ok
           THEN /\ upd' = [UpdIdle EXCEPT !.pc = "thrown", !.id = id,
                                          !.input = input, !.exps = exps,
                                          !.err = totals.err]
                /\ UNCHANGED uuid
           ELSE /\ upd' = [pc |-> "tx", id |-> id, input |-> input,
                           exps |-> exps,
                           entry |-> EntryRecord(id, input, totals,
                                                 existing.createdAt),
                           expenseRecords |->
                             ExpenseRecords(exps, uuid, id, DateObj(clock)),
                           err |-> ""]
                /\ uuid' = uuid + Len(exps)
      /\ UNCHANGED <<jobs, workEntries, expenses, clock, imp, imports, exp,
                     repo, calc, work, del, remoteVars>>

\* the transaction of updateWorkEntry with the old expenses left in place
updateWorkEntryTxKeeping(txFails) ==
  /\ upd.pc = "tx"
  /\ Cardinality(expenses \cup upd.expenseRecords) <= MaxRecords
  /\ IF txFails
       THEN /\ upd' = [upd EXCEPT !.pc = "thrown", !.err = "aborted"]
            /\ UNCHANGED <<workEntries, expenses>>
       ELSE /\ upd' = [upd EXCEPT !.pc = "done"]
            /\ expenses' = expenses \cup upd.expenseRecords
            /\ workEntries' = Put(workEntries, upd.entry)
  /\ UNCHANGED <<jobs, uuid, clock, imp, imports, exp, repo, calc, work, del,
                 remoteVars>>

\* the transaction of updateWorkEntry: the old expenses found through the
\* index are deleted, the new ones and the entry are put
updateWorkEntryTx(txFails) ==
  LET oldExpenses == ByWorkEntryId(expenses, upd.id)
  IN  /\ upd.pc = "tx"
      /\ Cardinality((expenses \ oldExpenses) \cup upd.expenseRecords)
            <= MaxRecords
      /\ IF txFails
           THEN /\ upd' = [upd EXCEPT !.pc = "thrown", !.err = "aborted"]
                /\ UNCHANGED <<workEntries, expenses>>
           ELSE /\ upd' = [upd EXCEPT !.pc = "done"]
                /\ expenses' = (expenses \ oldExpenses) \cup upd.expenseRecords
                /\ workEntries' = Put(workEntries, upd.entry)
      /\ UNCHANGED <<jobs, uuid, clock, imp, imports, exp, repo, calc, work,
                     del, remoteVars>>

\* deleteWorkEntry called beside the update
deleteWorkEntryCall(id, txFails) ==
  /\ del.pc = "idle"
  /\ deleteWorkEntry(id, txFails)
  /\ del' = [pc |-> IF txFails THEN "thrown" ELSE "done", id |-> id]

\* the callers take the results of the calls that have settled
EntryReturn ==
  /\ upd.pc \in {"idle", "done", "thrown"}
  /\ del.pc \in {"idle", "done", "thrown"}
  /\ <<upd, del>> # <<UpdIdle, DelIdle>>
  /\ upd' = UpdIdle /\ del' = DelIdle
  /\ UNCHANGED <<jobs, workEntries, expenses, uuid, clock, imp, imports, exp,
                 repo, calc, work, remoteVars>>

\* time passes
Tick ==
  /\ clock < MaxClock
  /\ clock' = clock + 1
  /\ UNCHANGED <<jobs, workEntries, expenses, uuid, imp, imports, exp, repo, calc, work, upd, del, remoteVars>>

(***************************************************************************)
(* Receipt storage (Supabase Storage, bucket "receipts")                   *)
(***************************************************************************)
UserId == "user-1"
NoPath == [user |-> "", entry |-> 0, expense |-> 0]

\* {userId}/{workEntryId}/{expenseId}.jpg
receiptPath(userId, workEntryId, expenseId) ==
  [user |-> userId, entry |-> workEntryId.n, expense |-> expenseId.n]

(***************************************************************************)
(* Entry service over Supabase.  Every await is one step; a storage or     *)
(* database call succeeds or reports an error.  svc.pc is the call about   *)
(* to be made; "done" and "thrown" are the settled promise.                *)
(*   input      the WorkEntryInput of the call                             *)
(*   items      upload items not yet uploaded (uploadReceiptsBatch)        *)
(*   uploaded   paths uploaded so far; uploadedPaths of the caller         *)
(*   old        oldReceiptPaths / receiptPaths read from the table         *)
(*   dbErr      the error caught by the catch around the database calls    *)
(*   rollback   the argument of the deleteReceipts call made in that catch *)
(*   err        the error the promise rejects with                         *)
(*   prior      the content of the two tables when the call was made       *)
(*   priorBucket  the content of the bucket when the call was made         *)
(***************************************************************************)

SvcIdle ==
  [op |-> "none", pc |-> "idle", id |-> Uuid(0), first |-> 0,
   input |-> NoInput, exps |-> <<>>, row |-> [id |-> Uuid(0)], items |-> <<>>,
   uploaded |-> <<>>, old |-> {}, dbErr |-> "", rollbackCalled |-> FALSE,
   rollback |-> {}, err |-> "", prior |-> <<{}, {}>>, priorBucket |-> {}]

RemoteJobId == Uuid(50)
\* an id under which no work entry was ever stored
MissingId == Uuid(99)
RemoteInputs ==
  { [date |-> Str("2025-06-15"), startTime |-> Iso(T0800),
     endTime |-> Iso(T1400), jobId |-> RemoteJobId,
     hourlyRateUsed |-> Num(500000), kilometers |-> Num(km),
     kmRateUsed |-> Num(5000)] : km \in {20000, 10000, -1000} }
  \cup { [date |-> Str("2025-06-15"), startTime |-> Iso(T1400),
          endTime |-> t, jobId |-> RemoteJobId,
          hourlyRateUsed |-> Num(500000), kilometers |-> Num(20000),
          kmRateUsed |-> Num(5000)] : t \in {Iso(T0800), Str("14:00")} }
RemoteExpense(hasFile) ==
  [amount |-> Num(150000), category |-> Str("Material"), file |-> hasFile]
RemoteExpenseWith(amount, category, hasFile) ==
  [amount |-> Num(amount), category |-> Str(category), file |-> hasFile]
RemoteExpenseInputs ==
  { <<>>, <<RemoteExpense(TRUE)>>, <<RemoteExpense(FALSE)>>,
    <<RemoteExpense(TRUE), RemoteExpense(TRUE)>>,
    <<RemoteExpenseWith(150000, "", FALSE)>>,
    <<RemoteExpenseWith(200000, "Material", TRUE),
      RemoteExpenseWith(-50000, "Material", FALSE)>> }

\* the columns written by insert / update of work_entries; numeric(14,2)
\* columns keep two decimals
EntryRow(id, input, totals) ==
  [id |-> id, job_id |-> input.jobId, date |-> input.date,
   start_time |-> input.startTime, end_time |-> input.endTime,
   hourly_rate_used |-> Num(Round2(input.hourlyRateUsed.n)),
   kilometers |-> Num(Round2(input.kilometers.n)),
   km_rate_used |-> Num(Round2(input.kmRateUsed.n)),
   labor_total |-> Num(Round2(totals.laborTotal.n)),
   km_total |-> Num(Round2(totals.kmTotal.n)),
   expenses_total |-> Num(Round2(totals.expensesTotal.n)),
   grand_total |-> Num(Round2(totals.grandTotal.n))]

\* check constraints of public.work_entries
EntryRowOk(row) ==
  /\ DateParse(row.end_time).n > DateParse(row.start_time).n
  /\ \A c \in {"hourly_rate_used", "kilometers", "km_rate_used",
               "labor_total", "km_total", "expenses_total", "grand_total"} :
       row[c].n >= 0

\* ExpenseRows with the receipt path of every file taken from the first
\* expense id
ExpenseRowsFirstPath(exps, first, entryId) ==
  { [id |-> Uuid(first + i), work_entry_id |-> entryId,
     amount |-> Num(Round2(exps[i].amount.n)),
     category |-> exps[i].category,
     receipt_url |-> IF exps[i].file
                       THEN receiptPath(UserId, entryId, Uuid(first + 1))
                       ELSE NoPath] :
    i \in 1..Len(exps) }

\* expenseRows: input i gets the UUID number first + i
ExpenseRows(exps, first, entryId) ==
  { [id |-> Uuid(first + i), work_entry_id |-> entryId,
     amount |-> Num(Round2(exps[i].amount.n)),
     category |-> exps[i].category,
     receipt_url |-> IF exps[i].file
                       THEN receiptPath(UserId, entryId, Uuid(first + i))
                       ELSE NoPath] :
    i \in 1..Len(exps) }

\* check and foreign-key constraints of public.expenses
ExpenseRowsOk(rows, entries) ==
  \A r \in rows : /\ r.amount.n >= 0
                  /\ \E w \in entries : w.id = r.work_entry_id

\* uploadItems: the path of every expense that carries a file, in order
RECURSIVE UploadItems(_, _, _, _)
UploadItems(exps, i, first, entryId) ==
  IF i > Len(exps) THEN <<>>
  ELSE (IF exps[i].file
          THEN <<receiptPath(UserId, entryId, Uuid(first + i))>>
          ELSE <<>>)
       \o UploadItems(exps, i + 1, first, entryId)

\* receipt_url of the expenses of an entry, non-empty ones only
ReceiptPathsOf(id) ==
  {e.receipt_url : e \in {x \in expense_rows : x.work_entry_id = id}}
  \ {NoPath}

SbFrame == UNCHANGED <<localVars>>

\* createWorkEntry up to its first await
SbCreateStart(input, exps) ==
  LET workEntryId == Uuid(uuid + 1)
      totals == ComputeTotals(input, exps)
      items == UploadItems(exps, 1, uuid + 1, workEntryId)
  IN  /\ svc.pc = "idle" /\ uuid + 1 + Len(exps) <= MaxUuid
      /\ uuid' = uuid + 1 + Len(exps)
      /\ svc' = IF ~totals.ok
                  THEN [SvcIdle EXCEPT !.op = "create", !.pc = "thrown",
                                       !.id = workEntryId,
                                       !.first = uuid + 1,
                                       !.input = input, !.exps = exps,
                                       !.err = totals.err,
                                       !.prior = <<work_entries, expense_rows>>,
                                       !.priorBucket = bucket]
                  ELSE [SvcIdle EXCEPT
                          !.op = "create", !.id = workEntryId,
                          !.prior = <<work_entries, expense_rows>>,
                          !.priorBucket = bucket,
                          !.first = uuid + 1,
                          !.input = input, !.exps = exps,
                          !.row = EntryRow(workEntryId, input, totals),
                          !.items = items,
                          !.pc = IF items # <<>> THEN "upload"
                                 ELSE "insertEntry"]
      /\ UNCHANGED <<work_entries, expense_rows, bucket>>
      /\ SbFrame

\* updateWorkEntry up to its first await
SbUpdateStart(id, input, exps) ==
  LET totals == ComputeTotals(input, exps)
  IN  /\ svc.pc = "idle" /\ uuid + Len(exps) <= MaxUuid
      /\ uuid' = uuid + Len(exps)
      /\ svc' = IF ~totals.ok
                  THEN [SvcIdle EXCEPT !.op = "update", !.pc = "thrown",
                                       !.id = id, !.first = uuid,
                                       !.input = input, !.exps = exps,
                                       !.err = totals.err,
                                       !.prior = <<work_entries, expense_rows>>,
                                       !.priorBucket = bucket]
                  ELSE [SvcIdle EXCEPT
                          !.op = "update", !.id = id, !.first = uuid,
                          !.prior = <<work_entries, expense_rows>>,
                          !.priorBucket = bucket,
                          !.input = input, !.exps = exps,
                          !.row = EntryRow(id, input, totals),
                          !.items = UploadItems(exps, 1, uuid, id),
                          !.pc = "fetchOld"]
      /\ UNCHANGED <<work_entries, expense_rows, bucket>>
      /\ SbFrame

\* select id, receipt_url of the old expenses
SbFetchOld(fails) ==
  /\ svc.pc = "fetchOld"
  /\ svc' = IF fails
              THEN [svc EXCEPT !.pc = "thrown", !.err = "fetchErr"]
              ELSE [svc EXCEPT !.old = ReceiptPathsOf(svc.id),
                               !.pc = IF svc.items # <<>> THEN "upload"
                                      ELSE "updateEntry"]
  /\ UNCHANGED <<work_entries, expense_rows, bucket, uuid>>
  /\ SbFrame

\* SbUpload with the catch of uploadReceiptsBatch rethrowing at once
SbUploadNoRollback(fails) ==
  /\ svc.pc = "upload" /\ svc.items # <<>>
  /\ IF fails \/ Head(svc.items) \in bucket
       THEN /\ svc' = [svc EXCEPT !.pc = "thrown", !.err = "uploadErr"]
            /\ UNCHANGED bucket
       ELSE /\ bucket' = bucket \cup {Head(svc.items)}
            /\ svc' = [svc EXCEPT
                 !.items = Tail(@),
                 !.uploaded = Append(@, Head(svc.items)),
                 !.pc = IF Tail(svc.items) # <<>> THEN "upload"
                        ELSE IF svc.op = "create" THEN "insertEntry"
                        ELSE "updateEntry"]
  /\ UNCHANGED <<work_entries, expense_rows, uuid>>
  /\ SbFrame

\* uploadReceiptsBatch: uploadReceipt of the next item (upsert: false)
SbUpload(fails) ==
  /\ svc.pc = "upload" /\ svc.items # <<>>
  /\ IF fails \/ Head(svc.items) \in bucket
       THEN /\ svc' = [svc EXCEPT !.pc = IF svc.uploaded # <<>>
                                           THEN "uploadRollback"
                                           ELSE "thrown",
                                  !.err = "uploadErr"]
            /\ UNCHANGED bucket
       ELSE /\ bucket' = bucket \cup {Head(svc.items)}
            /\ svc' = [svc EXCEPT
                 !.items = Tail(@),
                 !.uploaded = Append(@, Head(svc.items)),
                 !.pc = IF Tail(svc.items) # <<>> THEN "upload"
                        ELSE IF svc.op = "create" THEN "insertEntry"
                        ELSE "updateEntry"]
  /\ UNCHANGED <<work_entries, expense_rows, uuid>>
  /\ SbFrame

\* uploadReceiptsBatch: rollback of the files uploaded before the failure
SbUploadRollback(fails) ==
  /\ svc.pc = "uploadRollback"
  /\ bucket' = IF fails THEN bucket ELSE bucket \ Range(svc.uploaded)
  /\ svc' = [svc EXCEPT !.pc = "thrown", !.rollbackCalled = TRUE,
                        !.rollback = Range(svc.uploaded)]
  /\ UNCHANGED <<work_entries, expense_rows, uuid>>
  /\ SbFrame

\* insert into work_entries
SbInsertEntry(fails) ==
  /\ svc.pc = "insertEntry"
  /\ IF fails \/ ~EntryRowOk(svc.row)
          \/ \E w \in work_entries : w.id = svc.row.id
       THEN /\ svc' = [svc EXCEPT !.pc = "catch", !.dbErr = "entryErr"]
            /\ UNCHANGED work_entries
       ELSE /\ work_entries' = work_entries \cup {svc.row}
            /\ svc' = [svc EXCEPT !.pc = IF svc.exps # <<>>
                                           THEN "insertExpenses" ELSE "done"]
  /\ UNCHANGED <<expense_rows, bucket, uuid>>
  /\ SbFrame

\* update work_entries ... where id = id
SbUpdateEntry(fails) ==
  /\ svc.pc = "updateEntry"
  /\ IF fails \/ ((\E w \in work_entries : w.id = svc.id)
                  /\ ~EntryRowOk(svc.row))
       THEN /\ svc' = [svc EXCEPT !.pc = "catch", !.dbErr = "updateErr"]
            /\ UNCHANGED work_entries
       ELSE /\ work_entries' =
                 {IF w.id = svc.id THEN svc.row ELSE w : w \in work_entries}
            /\ svc' = [svc EXCEPT !.pc = "deleteOld"]
  /\ UNCHANGED <<expense_rows, bucket, uuid>>
  /\ SbFrame

\* delete from expenses where work_entry_id = id (updateWorkEntry)
SbDeleteOld(fails) ==
  /\ svc.pc = "deleteOld"
  /\ IF fails
       THEN /\ svc' = [svc EXCEPT !.pc = "catch", !.dbErr = "delErr"]
            /\ UNCHANGED expense_rows
       ELSE /\ expense_rows' =
                 {e \in expense_rows : e.work_entry_id # svc.id}
            /\ svc' = [svc EXCEPT !.pc = IF svc.exps # <<>>
                                           THEN "insertExpenses"
                                           ELSE "cleanup"]
  /\ UNCHANGED <<work_entries, bucket, uuid>>
  /\ SbFrame

\* insert into expenses (all rows in one statement)
SbInsertExpenses(fails) ==
  LET rows == ExpenseRows(svc.exps, svc.first, svc.id)
  IN  /\ svc.pc = "insertExpenses"
      /\ IF fails \/ ~ExpenseRowsOk(rows, work_entries)
           THEN /\ svc' = [svc EXCEPT !.pc = "catch",
                             !.dbErr = IF svc.op = "create" THEN "expErr"
                                       ELSE "insErr"]
                /\ UNCHANGED expense_rows
           ELSE /\ expense_rows' = expense_rows \cup rows
                /\ svc' = [svc EXCEPT !.pc = IF svc.op = "create"
                                               THEN "done" ELSE "cleanup"]
      /\ UNCHANGED <<work_entries, bucket, uuid>>
      /\ SbFrame

\* SbCatch without the inner try/catch: a failing rollback replaces dbErr
SbCatchMasking(fails) ==
  /\ svc.pc = "catch"
  /\ IF svc.uploaded # <<>>
       THEN /\ bucket' = IF fails THEN bucket
                         ELSE bucket \ Range(svc.uploaded)
            /\ svc' = [svc EXCEPT !.rollbackCalled = TRUE,
                                  !.rollback = Range(svc.uploaded),
                                  !.dbErr = IF fails THEN "rollbackErr" ELSE @,
                                  !.pc = "rethrow"]
       ELSE /\ UNCHANGED bucket
            /\ svc' = [svc EXCEPT !.pc = "rethrow"]
  /\ UNCHANGED <<work_entries, expense_rows, uuid>>
  /\ SbFrame

\* catch (dbErr): delete the files uploaded by this call, then rethrow
SbCatch(fails) ==
  /\ svc.pc = "catch"
  /\ IF svc.uploaded # <<>>
       THEN /\ bucket' = IF fails THEN bucket
                         ELSE bucket \ Range(svc.uploaded)
            /\ svc' = [svc EXCEPT !.rollbackCalled = TRUE,
                                  !.rollback = Range(svc.uploaded),
                                  !.pc = "rethrow"]
       ELSE /\ UNCHANGED bucket
            /\ svc' = [svc EXCEPT !.pc = "rethrow"]
  /\ UNCHANGED <<work_entries, expense_rows, uuid>>
  /\ SbFrame

\* throw dbErr
SbRethrow ==
  /\ svc.pc = "rethrow"
  /\ svc' = [svc EXCEPT !.pc = "thrown", !.err = svc.dbErr]
  /\ UNCHANGED <<work_entries, expense_rows, bucket, uuid>>
  /\ SbFrame

\* SbCleanup without its try/catch: a failing delete rejects the call
SbCleanupFatal(fails) ==
  /\ svc.pc = "cleanup"
  /\ bucket' = IF fails \/ svc.old = {} THEN bucket ELSE bucket \ svc.old
  /\ svc' = IF fails /\ svc.old # {}
              THEN [svc EXCEPT !.pc = "thrown", !.err = "storageErr"]
              ELSE [svc EXCEPT !.pc = "done"]
  /\ UNCHANGED <<work_entries, expense_rows, uuid>>
  /\ SbFrame

\* updateWorkEntry: best-effort delete of the superseded receipt files
SbCleanup(fails) ==
  /\ svc.pc = "cleanup"
  /\ bucket' = IF fails \/ svc.old = {} THEN bucket ELSE bucket \ svc.old
  /\ svc' = [svc EXCEPT !.pc = "done"]
  /\ UNCHANGED <<work_entries, expense_rows, uuid>>
  /\ SbFrame

\* deleteWorkEntry: select receipt_url of the expenses of the entry
SbDeleteStart(id, fails) ==
  /\ svc.pc = "idle"
  /\ svc' = IF fails
              THEN [SvcIdle EXCEPT !.op = "delete", !.id = id,
                                   !.prior = <<work_entries, expense_rows>>,
                          !.priorBucket = bucket,
                                   !.pc = "thrown", !.err = "fetchErr"]
              ELSE [SvcIdle EXCEPT
                      !.op = "delete", !.id = id,
                      !.prior = <<work_entries, expense_rows>>,
                          !.priorBucket = bucket,
                      !.old = ReceiptPathsOf(id),
                      !.pc = IF ReceiptPathsOf(id) # {} THEN "deleteFiles"
                             ELSE "deleteExpenses"]
  /\ UNCHANGED <<work_entries, expense_rows, bucket, uuid>>
  /\ SbFrame

\* SbDeleteFiles with a failing deleteReceipts logged and not thrown
SbDeleteFilesSwallow(fails) ==
  /\ svc.pc = "deleteFiles"
  /\ bucket' = IF fails THEN bucket ELSE bucket \ svc.old
  /\ svc' = [svc EXCEPT !.pc = "deleteExpenses"]
  /\ UNCHANGED <<work_entries, expense_rows, uuid>>
  /\ SbFrame

\* deleteWorkEntry: deleteReceipts(receiptPaths)
SbDeleteFiles(fails) ==
  /\ svc.pc = "deleteFiles"
  /\ IF fails
       THEN /\ svc' = [svc EXCEPT !.pc = "thrown", !.err = "storageErr"]
            /\ UNCHANGED bucket
       ELSE /\ bucket' = bucket \ svc.old
            /\ svc' = [svc EXCEPT !.pc = "deleteExpenses"]
  /\ UNCHANGED <<work_entries, expense_rows, uuid>>
  /\ SbFrame

\* deleteWorkEntry: delete from expenses where work_entry_id = id
SbDeleteExpenses(fails) ==
  /\ svc.pc = "deleteExpenses"
  /\ IF fails
       THEN /\ svc' = [svc EXCEPT !.pc = "thrown", !.err = "expErr"]
            /\ UNCHANGED expense_rows
       ELSE /\ expense_rows' =
                 {e \in expense_rows : e.work_entry_id # svc.id}
            /\ svc' = [svc EXCEPT !.pc = "deleteEntry"]
  /\ UNCHANGED <<work_entries, bucket, uuid>>
  /\ SbFrame

\* deleteWorkEntry: delete from work_entries where id = id (cascades)
SbDeleteEntry(fails) ==
  /\ svc.pc = "deleteEntry"
  /\ IF fails
       THEN /\ svc' = [svc EXCEPT !.pc = "thrown", !.err = "entryErr"]
            /\ UNCHANGED <<work_entries, expense_rows>>
       ELSE /\ work_entries' = {w \in work_entries : w.id # svc.id}
            /\ expense_rows' =
                 {e \in expense_rows : e.work_entry_id # svc.id}
            /\ svc' = [svc EXCEPT !.pc = "done"]
  /\ UNCHANGED <<bucket, uuid>>
  /\ SbFrame

\* the promise of the call settles and the caller goes on
SbReturn ==
  /\ svc.pc \in {"done", "thrown"}
  /\ svc' = SvcIdle
  /\ UNCHANGED <<work_entries, expense_rows, bucket, uuid>>
  /\ SbFrame

(***************************************************************************)
(* Calls of the calculation module.  The functions are pure: a call        *)
(* leaves the stores alone, and calc holds the last call, its arguments    *)
(* and what it returned or threw.                                          *)
(***************************************************************************)
CalcIdle == [fn |-> "none", args |-> <<>>, res |-> Ret(0)]
Called(fn, args, res) == [fn |-> fn, args |-> args, res |-> res]
CalcFrame ==
  UNCHANGED <<jobs, workEntries, expenses, uuid, clock, imp, imports, exp,
              repo, work, upd, del, remoteVars>>

\* arguments of the calls: datetime strings (instants in seconds, some an
\* odd number of half hundredths of an hour apart) and strings that do not
\* parse; amounts in thousandths, some negative, some with a third decimal
CalcTimes ==
  {Str(""), Str("8:00"), Iso(0), Iso(18), IsoZ(18), Iso(3618), Iso(21600)}
CalcHours == {-500, 0, 290, 1250, 8000}
CalcRates == {-1000, 0, 1005, 99500}
CalcTotals == {-10, 0, 5, 10, 20, 1500, 250000}

DurationCall(startTime, endTime) ==
  /\ calc' = Called("calculateDurationInHours", <<startTime, endTime>>,
                    calculateDurationInHours(startTime, endTime))
  /\ CalcFrame

LaborTotalCall(hours, hourlyRate) ==
  /\ calc' = Called("calculateLaborTotal", <<hours, hourlyRate>>,
                    calculateLaborTotal(hours, hourlyRate))
  /\ CalcFrame

KmTotalCall(km, kmRate) ==
  /\ calc' = Called("calculateKmTotal", <<km, kmRate>>,
                    calculateKmTotal(km, kmRate))
  /\ CalcFrame

GrandTotalCall(laborTotal, kmTotal, expensesTotal) ==
  /\ calc' = Called("calculateGrandTotal",
                    <<laborTotal, kmTotal, expensesTotal>>,
                    calculateGrandTotal(laborTotal, kmTotal, expensesTotal))
  /\ CalcFrame

(***************************************************************************)
(* Debug page: the generator of test entries, the button that clears the   *)
(* database, and the import of the file of the export made last.           *)
(***************************************************************************)
\* the values Math.random() leads to for one entry: the milliseconds from
\* start to end ((4 + Math.random() * 6) * 3600_000), the kilometers
\* (Math.round(Math.random() * 80)) and the two expense amounts
DebugDraws ==
  [ms : {4 * 3600000, 4 * 3600000 + 500, 18500000},
   km : {0, 40000},
   amount1 : {150250},
   amount2 : {0, 99990}]

\* toLocalDate(start) of entry i
DebugDate(i) == <<"2025-01-01", "2025-01-02", "2025-01-03">>[i + 1]

\* Math.round(hours * 500 * 100) / 100, hours = (end - start) / 3600_000
DebugLaborTotal(ms) ==
  MathRound(DoubleTimes100(
    DoubleTimes(DoubleDiv(ms, 3600000), Double(500000)))) * 10

\* entry i of the loop (i from 0), with the UUIDs after number k
DebugEntry(i, k, draw, jobId) ==
  LET start == T0800 + i * 24 * 3600
      laborTotal == DebugLaborTotal(draw.ms)
      kmTotal == draw.km * 5
      expensesTotal == draw.amount1 + draw.amount2
  IN  [id |-> Uuid(k + 1), date |-> Str(DebugDate(i)),
       startTime |-> Iso(start), endTime |-> Iso(start + draw.ms \div 1000),
       jobId |-> jobId, hourlyRateUsed |-> Num(500000),
       kilometers |-> Num(draw.km), kmRateUsed |-> Num(5000),
       laborTotal |-> Num(laborTotal), kmTotal |-> Num(kmTotal),
       expensesTotal |-> Num(expensesTotal),
       grandTotal |-> Num(RoundedSum(laborTotal, kmTotal, expensesTotal)),
       createdAt |-> DateObj(clock)]
DebugExpenses(k, draw) ==
  { [id |-> Uuid(k + 2), workEntryId |-> Uuid(k + 1),
     amount |-> Num(draw.amount1), category |-> Str("Material"),
     receiptImageUrl |-> Str(""), createdAt |-> DateObj(clock)],
    [id |-> Uuid(k + 3), workEntryId |-> Uuid(k + 1),
     amount |-> Num(draw.amount2), category |-> Str("Doprava"),
     receiptImageUrl |-> Str(""), createdAt |-> DateObj(clock)] }

\* put of every record of a set, one key each
PutAll(store, recs) == {r \in store : \A q \in recs : q.id # r.id} \cup recs

handleGenerate(count, draws) ==
  LET job == [id |-> Uuid(uuid + 1), name |-> Str("Testovaci zakazka"),
              client |-> Str("Testovaci klient"),
              defaultHourlyRate |-> Num(500000), active |-> Bool(TRUE),
              createdAt |-> DateObj(clock)]
      allJobs == IF jobs = {} THEN {job} ELSE jobs
      first == IF jobs = {} THEN uuid + 1 ELSE uuid
      jobId == GetAll(allJobs)[1].id
  IN  /\ imp.pc = "idle" /\ repo.pc = "idle"
      /\ first + 3 * count <= 1 + 3 * MaxGenerated
      /\ jobs' = allJobs
      /\ workEntries' =
           PutAll(workEntries,
                  {DebugEntry(i, first + 3 * i, draws[i + 1], jobId) :
                     i \in 0..(count - 1)})
      /\ expenses' =
           PutAll(expenses,
                  UNION {DebugExpenses(first + 3 * i, draws[i + 1]) :
                           i \in 0..(count - 1)})
      /\ uuid' = first + 3 * count
      /\ UNCHANGED <<clock, imp, imports, exp, repo, calc, work, upd, del, remoteVars>>

\* "Vymazat databazi": one readwrite transaction clears the three stores
handleClear ==
  /\ imp.pc = "idle" /\ repo.pc = "idle"
  /\ jobs' = {} /\ workEntries' = {} /\ expenses' = {}
  /\ UNCHANGED <<uuid, clock, imp, imports, exp, repo, calc, work, upd, del, remoteVars>>

\* the user imports the file of the export made last, unmodified
ImportDownloaded ==
  /\ exp.pc = "done"
  /\ importFullBackup(downloadBackupFile(exp.doc), TRUE)

(***************************************************************************)
(* Work page.  work holds the state of the mounted page (phase, session,   *)
(* endTime, saving, error, the jobs loaded, the createWorkEntry call that  *)
(* handleSave awaits) and, outliving the page, the localStorage item under *)
(* the key "remeslnici-active-session" and the number of reloads so far.   *)
(***************************************************************************)
NoSession == [none |-> TRUE]
NoCall == [none |-> TRUE]
\* the save form as handleStop leaves it: kilometers is the value
\* parseFloat(kilometers) || 0 of the field, rows the expense rows
EmptyForm == [kilometers |-> Num(0), rows |-> <<>>]
WorkIdle ==
  [phase |-> "idle", session |-> NoSession, endTime |-> Str(""),
   form |-> EmptyForm, saving |-> FALSE, error |-> "", loaded |-> FALSE,
   jobs |-> {}, call |-> NoCall, item |-> NoSession, reloads |-> 0]

\* localStorage.setItem(SESSION_STORAGE_KEY, JSON.stringify(session))
persistSession(session) == JsonRecord(session)

\* the parsed item when it has the shape of a session, else null
loadPersistedSession(item) ==
  IF item = NoSession THEN NoSession
  ELSE IF /\ Get(item, "jobId").ty = "string"
          /\ Get(item, "jobName").ty = "string"
          /\ Get(item, "hourlyRate").ty = "number"
          /\ Get(item, "startTime").ty = "string"
    THEN item
  ELSE NoSession

WorkFrame ==
  UNCHANGED <<jobs, workEntries, expenses, uuid, clock, imp, imports, exp,
              repo, calc, upd, del, remoteVars>>

\* what the user may have typed: a rate override (none, or its
\* parseFloat), and the save form filled in
RateOverrides == {Undefined, Num(650000), Num(-1000)}
SaveForms ==
  { [kilometers |-> Num(20000), rows |-> <<ExpenseInputOf(150000)>>],
    [kilometers |-> Num(-1000), rows |-> <<>>],
    [kilometers |-> Num(0),
     rows |-> <<[amount |-> NaN, category |-> Str("Material"),
                 receiptImageUrl |-> Str("")]>>] }

loadJobs ==
  /\ ~work.loaded
  /\ work' = [work EXCEPT !.loaded = TRUE,
                          !.jobs = {j \in jobs : j.active = Bool(TRUE)}]
  /\ WorkFrame

\* START with job selected and rateOverride typed
handleStart(job, rateOverride) ==
  LET rate == IF rateOverride = Undefined THEN job.defaultHourlyRate
              ELSE rateOverride
      newSession == [jobId |-> job.id, jobName |-> job.name,
                     hourlyRate |-> rate, startTime |-> Iso(clock)]
  IN  /\ work.phase = "idle" /\ job \in work.jobs
      /\ IF rate.s = "NaN" \/ rate.n < 0
           THEN work' = [work EXCEPT !.error = "InvalidRate"]
           ELSE work' = [work EXCEPT !.error = "", !.session = newSession,
                                     !.item = persistSession(newSession),
                                     !.phase = "running"]
      /\ WorkFrame

\* handleStop that also removes the item
handleStopClearing ==
  /\ work.phase = "running"
  /\ work' = [work EXCEPT !.endTime = Iso(clock), !.form = EmptyForm,
                          !.phase = "saving", !.item = NoSession]
  /\ WorkFrame

\* STOP
handleStop ==
  /\ work.phase = "running"
  /\ work' = [work EXCEPT !.endTime = Iso(clock), !.form = EmptyForm,
                          !.phase = "saving"]
  /\ WorkFrame

\* the user fills in the save form (the fields stay enabled while saving)
fillForm(form) ==
  /\ work.phase = "saving" /\ work.form # form
  /\ work' = [work EXCEPT !.form = form]
  /\ WorkFrame

\* "Ulozit", up to the await: the checks of the form, then setSaving(true)
\* and the call of createWorkEntry
handleSave ==
  LET kilometers == work.form.kilometers
      rows == work.form.rows
      bad == \E i \in 1..Len(rows) :
               rows[i].amount.s = "NaN" \/ rows[i].amount.n < 0
      input == [date |-> Str("2025-06-15"),
                startTime |-> work.session.startTime,
                endTime |-> work.endTime, jobId |-> work.session.jobId,
                hourlyRateUsed |-> work.session.hourlyRate,
                kilometers |-> kilometers, kmRateUsed |-> Num(5000)]
  IN  /\ work.phase = "saving" /\ work.session # NoSession /\ ~work.saving
      /\ imp.pc = "idle" /\ repo.pc = "idle"
      /\ uuid + 1 + Len(rows) <= MaxUuid
      /\ StoreSize + 1 + Len(rows) <= MaxRecords
      /\ IF kilometers.n < 0
           THEN work' = [work EXCEPT !.error = "NegativeKilometers"]
           ELSE IF bad
           THEN work' = [work EXCEPT !.error = "InvalidAmount"]
           ELSE work' = [work EXCEPT !.error = "", !.saving = TRUE,
                           !.call = [input |-> input, exps |-> rows]]
      /\ WorkFrame

\* Saved with the item removed whatever the outcome of the call
SavedClearing(ok) ==
  IF ok THEN [work EXCEPT !.item = NoSession, !.session = NoSession,
                          !.phase = "idle", !.saving = FALSE,
                          !.call = NoCall]
  ELSE [work EXCEPT !.error = "SaveFailed", !.saving = FALSE,
                    !.call = NoCall, !.item = NoSession]

\* what handleSave does when the awaited createWorkEntry has settled
Saved(ok) ==
  IF ok THEN [work EXCEPT !.item = NoSession, !.session = NoSession,
                          !.phase = "idle", !.saving = FALSE,
                          !.call = NoCall]
  ELSE [work EXCEPT !.error = "SaveFailed", !.saving = FALSE,
                    !.call = NoCall]

\* the awaited createWorkEntry settles and handleSave runs to its end
handleSaveSettled(txFails) ==
  /\ work.saving
  /\ createWorkEntry(work.call.input, work.call.exps, txFails)
  /\ work' = Saved(ComputeTotals(work.call.input, work.call.exps).ok
                   /\ ~txFails)

\* "Zrusit"; the button is disabled while saving
handleCancel ==
  /\ work.phase \in {"running", "saving"} /\ ~work.saving
  /\ work' = [work EXCEPT !.item = NoSession, !.session = NoSession,
                          !.phase = "idle"]
  /\ WorkFrame

\* Mounted without the restore effect
MountedIdle(item, reloads) ==
  [WorkIdle EXCEPT !.item = item, !.reloads = reloads]

\* the state of the page after mount and its restore effect
Mounted(item, reloads) ==
  IF loadPersistedSession(item) = NoSession
    THEN [WorkIdle EXCEPT !.item = item, !.reloads = reloads]
    ELSE [WorkIdle EXCEPT !.item = item, !.reloads = reloads,
                          !.session = loadPersistedSession(item),
                          !.phase = "running"]

\* the page is reloaded, or the browser closed and the application opened
\* again; the transaction of a createWorkEntry call in progress commits
\* or does not
Reload(commits) ==
  /\ work.reloads < MaxReloads
  /\ IF work.saving
       THEN createWorkEntry(work.call.input, work.call.exps, ~commits)
       ELSE WorkFrame
  /\ work' = Mounted(work.item, work.reloads + 1)

(***************************************************************************)
(* Specifications: Spec is the local (IndexedDB) store with its            *)
(* repositories, entry service and backup service; SpecRemote is the       *)
(* Supabase entry service with the receipt storage.                        *)
(***************************************************************************)
Init ==
  /\ jobs = {} /\ workEntries = {} /\ expenses = {}
  /\ uuid = 0 /\ clock = 0
  /\ imp = ImpIdle /\ imports = 0 /\ exp = ExpIdle /\ repo = RepoIdle
  /\ calc = CalcIdle
  /\ work = WorkIdle
  /\ upd = UpdIdle /\ del = DelIdle
  /\ work_entries = {} /\ expense_rows = {} /\ bucket = {}
  /\ svc = SvcIdle

Next ==
  \/ \E data \in JobInputs : JobCreate(data)
  \/ \E j \in jobs, rate \in JobRates :
       JobUpdate([j EXCEPT !.defaultHourlyRate = rate])
  \/ \E j \in jobs : JobRemove(j.id)
  \/ RepoReturn
  \/ \E input \in WorkEntryInputs, exps \in ExpenseInputs,
        txFails \in BOOLEAN :
       createWorkEntry(input, exps, txFails) /\ UNCHANGED work
  \/ \E e \in workEntries, input \in WorkEntryInputs,
        exps \in ExpenseInputs, txFails \in BOOLEAN :
       updateWorkEntry(e.id, input, exps, txFails)
  \/ \E e \in workEntries, txFails \in BOOLEAN :
       deleteWorkEntry(e.id, txFails) /\ UNCHANGED del
  \/ Tick
  \/ ImportExport
  \/ ImportEdited
  \/ ImportEmptied
  \/ ImportRequest
  \/ ImportCommit
  \/ ImportAbort
  \/ ImportReturn

Spec == Init /\ [][Next]_vars

NextRemote ==
  \/ \E input \in RemoteInputs, exps \in RemoteExpenseInputs :
       SbCreateStart(input, exps)
  \/ \E id \in {w.id : w \in work_entries} \cup {MissingId},
        input \in RemoteInputs, exps \in RemoteExpenseInputs :
       SbUpdateStart(id, input, exps)
  \/ \E w \in work_entries, fails \in BOOLEAN : SbDeleteStart(w.id, fails)
  \/ \E fails \in BOOLEAN : SbFetchOld(fails)
  \/ \E fails \in BOOLEAN : SbUpload(fails)
  \/ \E fails \in BOOLEAN : SbUploadRollback(fails)
  \/ \E fails \in BOOLEAN : SbInsertEntry(fails)
  \/ \E fails \in BOOLEAN : SbUpdateEntry(fails)
  \/ \E fails \in BOOLEAN : SbDeleteOld(fails)
  \/ \E fails \in BOOLEAN : SbInsertExpenses(fails)
  \/ \E fails \in BOOLEAN : SbCatch(fails)
  \/ SbRethrow
  \/ \E fails \in BOOLEAN : SbCleanup(fails)
  \/ \E fails \in BOOLEAN : SbDeleteFiles(fails)
  \/ \E fails \in BOOLEAN : SbDeleteExpenses(fails)
  \/ \E fails \in BOOLEAN : SbDeleteEntry(fails)
  \/ SbReturn

SpecRemote == Init /\ [][NextRemote]_vars

\* the repositories and the entry service, an import of the sample document
\* and exportFullBackup step by step, in any interleaving
NextExport ==
  \/ \E data \in JobInputs : JobCreate(data)
  \/ \E j \in jobs : JobRemove(j.id)
  \/ RepoReturn
  \/ \E input \in WorkEntryInputs, exps \in ExpenseInputs :
       createWorkEntry(input, exps, FALSE) /\ UNCHANGED work
  \/ \E e \in workEntries, input \in WorkEntryInputs,
        exps \in ExpenseInputs : updateWorkEntry(e.id, input, exps, FALSE)
  \/ \E e \in workEntries : deleteWorkEntry(e.id, FALSE) /\ UNCHANGED del
  \/ importFullBackup(SampleDoc, FALSE)
  \/ ImportRequest
  \/ ImportCommit
  \/ ImportReturn
  \/ ExportOpen
  \/ ExportGetAll
  \/ ExportDone
  \/ ExportReturn

SpecExport == Init /\ [][NextExport]_vars

\* the three repositories called directly, over records written by the
\* entry service
NextRepo ==
  \/ \E data \in JobInputs : JobCreate(data)
  \/ \E job \in JobUpdates : JobUpdate(job)
  \/ \E j \in jobs : JobRemove(j.id)
  \/ \E input \in WorkEntryInputs, exps \in ExpenseInputs :
       createWorkEntry(input, exps, FALSE) /\ UNCHANGED work
  \/ \E entry \in WorkEntryUpdates : WorkEntryUpdate(entry)
  \/ \E expense \in ExpenseUpdates : ExpenseUpdate(expense)
  \/ RepoReturn

SpecRepo == Init /\ [][NextRepo]_vars

\* the entry service over an imported store of two entries (imported while
\* no call of the service is in progress): an updateWorkEntry step by step
\* and a deleteWorkEntry, in any interleaving
NextEntry ==
  \/ upd = UpdIdle /\ del = DelIdle /\ importFullBackup(TwoEntryDoc, FALSE)
  \/ ImportRequest
  \/ ImportCommit
  \/ ImportReturn
  \/ Tick
  \/ \E id \in TwoEntryIds, input \in WorkEntryInputs,
        exps \in ExpenseInputs : updateWorkEntryCheck(id, input, exps)
  \/ \E txFails \in BOOLEAN : updateWorkEntryTx(txFails)
  \/ \E id \in TwoEntryIds, txFails \in BOOLEAN :
       deleteWorkEntryCall(id, txFails)
  \/ EntryReturn

SpecEntry == Init /\ [][NextEntry]_vars

\* the calculation module, each function called on its own
NextCalc ==
  \/ \E startTime \in CalcTimes, endTime \in CalcTimes :
       DurationCall(startTime, endTime)
  \/ \E hours \in CalcHours, hourlyRate \in CalcRates :
       LaborTotalCall(hours, hourlyRate)
  \/ \E km \in CalcHours, kmRate \in CalcRates : KmTotalCall(km, kmRate)
  \/ \E laborTotal \in CalcTotals, kmTotal \in CalcTotals,
        expensesTotal \in CalcTotals :
       GrandTotalCall(laborTotal, kmTotal, expensesTotal)

SpecCalc == Init /\ [][NextCalc]_vars

\* the manual test of the debug page: generate, export, clear, import
NextDebug ==
  \/ \E count \in 1..MaxGenerated :
       \E draws \in [1..count -> DebugDraws] : handleGenerate(count, draws)
  \/ handleClear
  \/ ExportOpen
  \/ ExportGetAll
  \/ ExportDone
  \/ ImportDownloaded
  \/ ImportRequest
  \/ ImportCommit
  \/ ImportReturn

SpecDebug == Init /\ [][NextDebug]_vars

\* the work page over the local store; a call of createWorkEntry settles
NextWork ==
  \/ \E data \in JobInputs : ~work.saving /\ JobCreate(data)
  \/ RepoReturn
  \/ Tick
  \/ loadJobs
  \/ \E job \in work.jobs, rateOverride \in RateOverrides :
       handleStart(job, rateOverride)
  \/ handleStop
  \/ \E form \in SaveForms : fillForm(form)
  \/ handleSave
  \/ \E txFails \in BOOLEAN : handleSaveSettled(txFails)
  \/ handleCancel
  \/ \E commits \in BOOLEAN : Reload(commits)

SpecWork ==
  /\ Init /\ [][NextWork]_vars
  /\ WF_vars(\E txFails \in BOOLEAN : handleSaveSettled(txFails))

(***************************************************************************)
(* Properties of the backup service (checked under Spec)                   *)
(***************************************************************************)
Store == <<jobs, workEntries, expenses>>

\* the text fields of a record that are required and not optional
RequiredText(coll) ==
  IF coll = "jobs" THEN {"id", "name", "client"}
  ELSE IF coll = "workEntries" THEN {"id", "jobId", "date"}
  ELSE {"id", "workEntryId", "category"}

EmptyRequiredText(doc) ==
  /\ doc.isObject
  /\ \E coll \in {"jobs", "workEntries", "expenses"} :
       \E i \in 1..Len(doc[coll].items), f \in RequiredText(coll) :
         Get(doc[coll].items[i], f) = Str("")

\* the document violates an import rule: one of the checks of
\* importFullBackup fails, or a required text field is the empty string
ViolatesImportRule(doc) == IsErr(ImportChecks(doc)) \/ EmptyRequiredText(doc)

\* C1: for every document that violates an import rule, importFullBackup
\* raises an error, issues no clear and no put, and the three collections
\* are what they were before the call.
C1_InvalidDocumentRejected ==
  (imp.pc # "idle" /\ ViolatesImportRule(imp.doc))
    => (imp.pc = "failed" /\ imp.reqs = <<>> /\ Store = imp.prior)

\* a stored record is a record of the document: same fields, same values,
\* createdAt a Date of the instant the document's string denotes
SameRecord(r, raw) ==
  /\ DOMAIN r = DOMAIN raw
  /\ \A f \in DOMAIN raw :
       IF f = "createdAt"
         THEN DateParses(raw[f]) /\ r[f] = DateObj(raw[f].n)
         ELSE r[f] = raw[f]

HoldsExactly(store, items) ==
  /\ Cardinality(store) = Len(items)
  /\ \A i \in 1..Len(items) : \E r \in store : SameRecord(r, items[i])

StoreHoldsDocument(doc) ==
  /\ HoldsExactly(jobs, doc.jobs.items)
  /\ HoldsExactly(workEntries, doc.workEntries.items)
  /\ HoldsExactly(expenses, doc.expenses.items)

\* C2: after importFullBackup succeeds, each collection contains exactly the
\* records of the corresponding array of the document, createdAt rehydrated
\* to the same instant, and nothing of the prior content besides.
C2_StoreIsDocument == imp.pc = "committed" => StoreHoldsDocument(imp.doc)

\* an import committed over a store that held a record the document lacks
C2_Witness ==
  /\ imp.pc = "committed"
  /\ imp.doc.jobs.items # <<>>
  /\ \/ \E r \in imp.prior[1] : r \notin jobs
     \/ \E r \in imp.prior[2] : r \notin workEntries
     \/ \E r \in imp.prior[3] : r \notin expenses

\* C3: at every instant during and after importFullBackup the three
\* collections together are the complete prior content or the complete
\* document content; after a failure mid-batch they are the prior content.
C3_AllOrNothing ==
  /\ imp.pc # "idle" => (Store = imp.prior \/ StoreHoldsDocument(imp.doc))
  /\ imp.pc \in {"tx", "aborted", "failed"} => Store = imp.prior

\* the transaction was aborted after it had cleared the stores and put the
\* jobs of the document, over a store that held records
C3_Witness ==
  /\ imp.pc = "aborted"
  /\ imp.prior[1] # {} /\ imp.prior[2] # {}
  /\ imp.jobs # {} /\ imp.jobs # imp.prior[1]
  /\ imp.workEntries = {}
  /\ ~StoreHoldsDocument(imp.doc)

\* C4: for every store state reached through the job repository and the
\* entry service, importing the export of the store succeeds, and the
\* export made after it has the same jobs, workEntries and expenses arrays.
C4_RoundTrip ==
  imp.isExport =>
    /\ imp.pc # "failed"
    /\ imp.pc = "committed" =>
         /\ downloadBackupFile(exportFullBackup).jobs = imp.doc.jobs
         /\ downloadBackupFile(exportFullBackup).workEntries
              = imp.doc.workEntries
         /\ downloadBackupFile(exportFullBackup).expenses = imp.doc.expenses

(***************************************************************************)
(* Properties of the entry service (checked under SpecRemote)              *)
(***************************************************************************)
RECURSIVE SumRows(_)
SumRows(rows) ==
  IF rows = {} THEN 0
  ELSE LET r == CHOOSE x \in rows : TRUE
       IN  r.amount.n + SumRows(rows \ {r})

\* the four totals are the recomputation from the raw fields and amounts
TotalsRecomputed(startTime, endTime, rate, km, kmRate,
                 labor, kmTotal, expensesTotal, grand, amounts) ==
  LET hours == calculateDurationInHours(startTime, endTime)
  IN  /\ hours.ok
      /\ labor = calculateLaborTotal(hours.val, rate).val
      /\ kmTotal = calculateKmTotal(km, kmRate).val
      /\ expensesTotal = amounts
      /\ grand = calculateGrandTotal(labor, kmTotal, expensesTotal).val

\* C5: after any sequence of entry-service operations, succeeded or failed,
\* every stored work entry has laborTotal, kmTotal, expensesTotal and
\* grandTotal equal to their recomputation from its raw fields and from the
\* amounts of the expenses currently stored under its id.
C5_DerivedTotals ==
  svc.pc = "idle" =>
    /\ \A w \in work_entries :
         TotalsRecomputed(w.start_time, w.end_time, w.hourly_rate_used.n,
           w.kilometers.n, w.km_rate_used.n, w.labor_total.n, w.km_total.n,
           w.expenses_total.n, w.grand_total.n,
           SumRows({e \in expense_rows : e.work_entry_id = w.id}))
    /\ \A w \in workEntries :
         TotalsRecomputed(w.startTime, w.endTime, w.hourlyRateUsed.n,
           w.kilometers.n, w.kmRateUsed.n, w.laborTotal.n, w.kmTotal.n,
           w.expensesTotal.n, w.grandTotal.n,
           SumRows(ByWorkEntryId(expenses, w.id)))

\* ids of the expenses of the createWorkEntry / updateWorkEntry call
CallExpenseIds == {Uuid(svc.first + i) : i \in 1..Len(svc.exps)}

\* C6: after createWorkEntry returns or throws, either the new work entry
\* and every one of its expenses are stored, or none of them is.
C6_CreateAtomic ==
  (svc.op = "create" /\ svc.pc \in {"done", "thrown"}) =>
    LET entryStored == \E w \in work_entries : w.id = svc.id
        stored == {id \in CallExpenseIds : \E e \in expense_rows : e.id = id}
    IN  \/ entryStored /\ stored = CallExpenseIds
        \/ ~entryStored /\ stored = {}

\* C7: when a database statement of updateWorkEntry fails, the error
\* propagates and the stored entry and expenses are as before the call.
C7_UpdateFailureUntouched ==
  (svc.op = "update" /\ svc.pc = "thrown" /\ svc.dbErr # "") =>
    /\ svc.err = svc.dbErr
    /\ <<work_entries, expense_rows>> = svc.prior

\* C8: between entry-service operations, whatever failed in them, every
\* stored expense names a stored work entry and no work entry accounts for
\* expenses of which none is stored.
C8_NoOrphans ==
  svc.pc = "idle" =>
    /\ \A e \in expense_rows : \E w \in work_entries : w.id = e.work_entry_id
    /\ \A w \in work_entries :
         w.expenses_total.n # 0 =>
           \E e \in expense_rows : e.work_entry_id = w.id

\* C9: between entry-service operations, whatever failed in them, every
\* non-empty receipt path stored in an expense names a file of the bucket.
C9_ReceiptPathsExist ==
  svc.pc = "idle" =>
    \A e \in expense_rows : e.receipt_url # NoPath => e.receipt_url \in bucket

\* the paths of the expenses of the call that carry a file
CallReceiptPaths ==
  {receiptPath(UserId, svc.id, Uuid(svc.first + i)) :
     i \in {k \in 1..Len(svc.exps) : svc.exps[k].file}}

\* C10: when a database statement of createWorkEntry or updateWorkEntry
\* fails after the uploads succeeded, deleteReceipts has been called with
\* exactly the paths uploaded by the call before the error is thrown, and
\* the error thrown is the database error, also when that delete failed.
C10_CompensatingRollback ==
  (svc.op \in {"create", "update"} /\ svc.dbErr # "" /\ svc.uploaded # <<>>
   /\ svc.pc \in {"rethrow", "thrown"}) =>
    /\ svc.rollbackCalled
    /\ svc.rollback = CallReceiptPaths
    /\ svc.dbErr \in {"entryErr", "expErr", "updateErr", "delErr", "insErr"}
    /\ svc.pc = "thrown" => svc.err = svc.dbErr

\* the database error was thrown although the rollback delete failed: the
\* uploaded files are still in the bucket
C10_Witness ==
  /\ svc.pc = "thrown" /\ svc.op \in {"create", "update"}
  /\ svc.dbErr # "" /\ svc.err = svc.dbErr
  /\ svc.uploaded # <<>> /\ svc.rollbackCalled
  /\ Range(svc.uploaded) \subseteq bucket

\* the upload items of the call, in the order of its expenses (the batch is
\* built once the totals have been computed)
CallUploadItems == UploadItems(svc.exps, 1, svc.first, svc.id)

\* C11: uploadReceiptsBatch uploads the items one at a time in order; when
\* an upload fails no later item is uploaded, deleteReceipts is called with
\* the paths uploaded before it (if any) and the upload error is thrown;
\* when every upload succeeds the paths are returned in item order and
\* nothing is deleted.
C11_UploadBatch ==
  (svc.op \in {"create", "update"} /\ ComputeTotals(svc.input, svc.exps).ok) =>
    /\ svc.uploaded \o svc.items = CallUploadItems
    /\ (svc.pc = "upload" \/ (svc.pc = "thrown" /\ svc.items # <<>>)) =>
         Range(svc.items) \cap bucket = {}
    /\ svc.pc = "upload" =>
         bucket = svc.priorBucket \cup Range(svc.uploaded)
    /\ (svc.pc = "thrown" /\ svc.items # <<>> /\ svc.uploaded # <<>>) =>
         /\ svc.err = "uploadErr"
         /\ svc.rollbackCalled /\ svc.rollback = Range(svc.uploaded)
    /\ (svc.pc = "thrown" /\ svc.items # <<>> /\ svc.uploaded = <<>>) =>
         /\ svc.err \in {"uploadErr", "fetchErr"}
         /\ ~svc.rollbackCalled /\ bucket = svc.priorBucket
    /\ (svc.pc \in {"insertEntry", "updateEntry"}) =>
         /\ svc.uploaded = CallUploadItems
         /\ ~svc.rollbackCalled
         /\ bucket = svc.priorBucket \cup Range(CallUploadItems)

\* the second upload of a batch failed and the rollback delete failed too:
\* the first file is still in the bucket and the upload error was thrown
C11_Witness ==
  /\ svc.pc = "thrown" /\ svc.err = "uploadErr"
  /\ Len(svc.uploaded) = 1 /\ Len(svc.items) = 1
  /\ svc.rollbackCalled
  /\ Range(svc.uploaded) \subseteq bucket

\* receipt paths of the expenses the entry had when the call was made, and
\* those of them that named a file
SupersededPaths ==
  {e.receipt_url : e \in {x \in svc.prior[2] : x.work_entry_id = svc.id}}
    \ {NoPath}
SupersededFiles == SupersededPaths \cap svc.priorBucket

\* the tables hold the data of the updateWorkEntry call
UpdateStored ==
  /\ svc.row \in work_entries
  /\ {e \in expense_rows : e.work_entry_id = svc.id}
       = ExpenseRows(svc.exps, svc.first, svc.id)

\* C12: updateWorkEntry deletes the receipt files of the superseded
\* expenses only after the database statements have succeeded and never
\* when the update fails; when there are superseded receipts to delete, the
\* call reaches that delete with the new data stored and then completes
\* successfully without touching the tables, whether or not the delete fails.
C12_CleanupAfterWrite ==
  /\ [](svc.op = "update" =>
          /\ svc.pc # "done" => SupersededFiles \subseteq bucket
          /\ (svc.pc \in {"cleanup", "done"} /\ SupersededPaths # {}) =>
               UpdateStored /\ svc.err = "")
  /\ [][svc.pc = "cleanup" =>
          /\ svc'.pc = "done"
          /\ work_entries' = work_entries /\ expense_rows' = expense_rows]_vars

\* an update completed although the delete of the superseded file failed
C12_Witness ==
  /\ svc.op = "update" /\ svc.pc = "done"
  /\ SupersededFiles # {} /\ SupersededFiles \subseteq bucket
  /\ UpdateStored /\ svc.row \notin svc.prior[1]

\* the input of the call fails validation: a negative number, a malformed
\* timestamp, an end before the start or an empty expense category
InvalidCallInput ==
  \/ svc.input.hourlyRateUsed.n < 0 \/ svc.input.kilometers.n < 0
  \/ svc.input.kmRateUsed.n < 0
  \/ ~DateParses(svc.input.startTime) \/ ~DateParses(svc.input.endTime)
  \/ svc.input.endTime.n < svc.input.startTime.n
  \/ \E i \in 1..Len(svc.exps) :
       svc.exps[i].amount.n < 0 \/ svc.exps[i].category = Str("")

\* C13: createWorkEntry and updateWorkEntry raise for every input that
\* fails validation before any I/O: nothing is uploaded, read or written.
C13_ValidationBeforeIO ==
  (svc.op \in {"create", "update"} /\ InvalidCallInput) =>
    /\ svc.pc = "thrown" /\ svc.dbErr = ""
    /\ svc.uploaded = <<>> /\ svc.items = <<>> /\ svc.old = {}
    /\ bucket = svc.priorBucket
    /\ <<work_entries, expense_rows>> = svc.prior

\* C14: updateWorkEntry called with an id under which no work entry is
\* stored fails with a not-found error; nothing is uploaded and no row is
\* written or deleted.
C14_UpdateNotFound ==
  (svc.op = "update" /\ ComputeTotals(svc.input, svc.exps).ok
   /\ ~\E w \in svc.prior[1] : w.id = svc.id) =>
    /\ svc.pc = "thrown" /\ svc.err = "notFound"
    /\ svc.uploaded = <<>> /\ bucket = svc.priorBucket
    /\ <<work_entries, expense_rows>> = svc.prior

\* the expense rows of the entry of the call
ExpenseRowsOfCall(rows) == {e \in rows : e.work_entry_id = svc.id}

\* C15: deleteWorkEntry deletes the receipt files of the linked expenses,
\* then the expense rows, then the work entry row: no expense row is removed
\* while one of those files is still stored, the work entry row is not
\* removed while one of its expense rows is stored, and after a successful
\* call neither the work entry nor any of its expenses remains.
C15_DeleteCascadeOrder ==
  svc.op = "delete" =>
    /\ ExpenseRowsOfCall(expense_rows) # ExpenseRowsOfCall(svc.prior[2]) =>
         SupersededPaths \cap bucket = {}
    /\ work_entries # svc.prior[1] => ExpenseRowsOfCall(expense_rows) = {}
    /\ svc.pc \in {"idle", "deleteFiles"} =>
         <<work_entries, expense_rows>> = svc.prior
    /\ svc.pc = "deleteFiles" => bucket = svc.priorBucket
    /\ svc.pc = "done" =>
         /\ ~\E w \in work_entries : w.id = svc.id
         /\ ExpenseRowsOfCall(expense_rows) = {}
         /\ SupersededPaths \cap bucket = {}
         /\ work_entries = {w \in svc.prior[1] : w.id # svc.id}
         /\ expense_rows = svc.prior[2] \ ExpenseRowsOfCall(svc.prior[2])

\* a work entry with an expense and its receipt file was deleted
C15_Witness ==
  /\ svc.op = "delete" /\ svc.pc = "done"
  /\ SupersededFiles # {}
  /\ \E w \in svc.prior[1] : w.id = svc.id

(***************************************************************************)
(* Properties of the import checks (checked under Spec)                    *)
(***************************************************************************)
\* the values of field f of the records of one array of a document
FieldValues(items, f) == {Get(items[i], f) : i \in 1..Len(items)}

\* some work entry of the document names a job, or some expense a work
\* entry, that the document does not contain
DanglingReference(doc) ==
  \/ \E v \in FieldValues(doc.workEntries.items, "jobId") :
       v \notin FieldValues(doc.jobs.items, "id")
  \/ \E v \in FieldValues(doc.expenses.items, "workEntryId") :
       v \notin FieldValues(doc.workEntries.items, "id")

\* two records of one array of the document have the same id
DuplicateId(doc) ==
  \E coll \in {"jobs", "workEntries", "expenses"} :
    \E i, k \in 1..Len(doc[coll].items) :
      i # k /\ Get(doc[coll].items[i], "id") = Get(doc[coll].items[k], "id")

RECURSIVE AmountsUpTo(_, _, _)
AmountsUpTo(items, id, k) ==
  IF k = 0 THEN 0
  ELSE AmountsUpTo(items, id, k - 1)
       + (IF Get(items[k], "workEntryId") = id
            THEN Get(items[k], "amount").n ELSE 0)

\* the value of a total of work entry r recomputed from its raw fields and
\* from the expenses of the document
Recomputed(doc, r, field) ==
  LET hours == calculateDurationInHours(Get(r, "startTime"),
                                        Get(r, "endTime")).val
      labor == calculateLaborTotal(hours, Get(r, "hourlyRateUsed").n).val
      km == calculateKmTotal(Get(r, "kilometers").n,
                             Get(r, "kmRateUsed").n).val
      exps == Round2(AmountsUpTo(doc.expenses.items, Get(r, "id"),
                                 Len(doc.expenses.items)))
  IN  IF field = "laborTotal" THEN labor
      ELSE IF field = "kmTotal" THEN km
      ELSE IF field = "expensesTotal" THEN exps
      ELSE calculateGrandTotal(labor, km, exps).val

TotalFields == {"laborTotal", "kmTotal", "expensesTotal", "grandTotal"}

\* total f of the i-th work entry of the document differs at 2 decimals
TotalDiffers(doc, i, f) ==
  /\ i \in 1..Len(doc.workEntries.items)
  /\ f \in TotalFields
  /\ Round2(Get(doc.workEntries.items[i], f).n)
       # Round2(Recomputed(doc, doc.workEntries.items[i], f))

TotalsMismatch(doc) ==
  \E i \in 1..Len(doc.workEntries.items), f \in TotalFields :
    TotalDiffers(doc, i, f)

\* C17: importFullBackup fails for every document in which a stored total
\* of a work entry differs at 2 decimals from its recomputation; when
\* nothing checked earlier is wrong the error names a work entry and a field
\* that differ, with the stored and the computed value.
C17_TotalsMismatchRejected ==
  (imp.pc # "idle" /\ TotalsMismatch(imp.doc)) =>
    /\ imp.pc = "failed" /\ imp.reqs = <<>> /\ Store = imp.prior
    /\ (~IsErr(validateBackup(imp.doc)) /\ ~DuplicateId(imp.doc)
        /\ ~DanglingReference(imp.doc) /\ imp.err.rule # "calculation") =>
         /\ imp.err.rule = "totals" /\ imp.err.coll = "workEntries"
         /\ TotalDiffers(imp.doc, imp.err.index + 1, imp.err.field)
         /\ imp.err.val
              = Get(imp.doc.workEntries.items[imp.err.index + 1],
                    imp.err.field)
         /\ imp.err.computed
              = Recomputed(imp.doc,
                           imp.doc.workEntries.items[imp.err.index + 1],
                           imp.err.field)

\* a document whose only fault is a grandTotal 0.01 too high was rejected
\* with an error naming workEntries[0].grandTotal
C17_Witness ==
  /\ imp.pc = "failed" /\ imp.err.rule = "totals"
  /\ imp.err.index = 0 /\ imp.err.field = "grandTotal"
  /\ imp.err.val.n = imp.err.computed + 10
  /\ \A f \in TotalFields \ {"grandTotal"} : ~TotalDiffers(imp.doc, 1, f)

\* id occurs twice among the records of one array of the document
OccursTwice(items, id) ==
  \E i, k \in 1..Len(items) :
    i # k /\ Get(items[i], "id") = id /\ Get(items[k], "id") = id

\* C18: importFullBackup rejects every document in which two records of one
\* collection share an id, with the store untouched and, when the field
\* validation passes, with the duplicate-id error naming that id; the
\* duplicate-id error is raised for no other document, in particular not
\* for an id shared by records of two different collections.
C18_DuplicateIds ==
  /\ (imp.pc # "idle" /\ DuplicateId(imp.doc)) =>
       /\ imp.pc = "failed" /\ imp.reqs = <<>> /\ Store = imp.prior
       /\ ~IsErr(validateBackup(imp.doc)) => imp.err.rule = "duplicateId"
  /\ (imp.pc = "failed" /\ imp.err.rule = "duplicateId") =>
       /\ imp.err.coll \in {"jobs", "workEntries", "expenses"}
       /\ OccursTwice(imp.doc[imp.err.coll].items, imp.err.val)
  /\ (imp.pc # "idle" /\ ~DuplicateId(imp.doc)
      /\ ~IsErr(validateBackup(imp.doc)) /\ ~DanglingReference(imp.doc)
      /\ ~TotalsMismatch(imp.doc)) => imp.pc # "failed"

\* a document with the same job twice was rejected, over a store holding
\* records, with the error naming the id of that job
C18_Witness ==
  /\ imp.pc = "failed" /\ imp.err.rule = "duplicateId"
  /\ imp.err.coll = "jobs" /\ imp.err.val = SampleJob.id
  /\ jobs # {}

\* a document whose job and work entry share an id was imported
C18_SharedIdAccepted ==
  /\ imp.pc = "committed"
  /\ \E j \in jobs, w \in workEntries : j.id = w.id

\* C19: importFullBackup rejects every document (JSON object) whose version
\* is not exactly the number 1, a missing version included, whatever else
\* it contains: the error is the version error and names the offending
\* value, or that it is missing, and the store is untouched.
C19_VersionRejected ==
  (imp.pc # "idle" /\ imp.doc.isObject /\ imp.doc.version # Num(1000)) =>
    /\ imp.pc = "failed" /\ imp.reqs = <<>> /\ Store = imp.prior
    /\ imp.err.rule = "version"
    /\ imp.err.val = IF imp.doc.version \in {Undefined, Null}
                       THEN Str("chybi") ELSE imp.doc.version

\* a document of version 2 with further faults was rejected for its
\* version, over a store holding records
C19_Witness ==
  /\ imp.pc = "failed" /\ imp.err.rule = "version"
  /\ imp.err.val = Num(2000)
  /\ ~imp.doc.jobs.isArray /\ imp.doc.exportedAt = Str("")
  /\ jobs # {}

\* the fields of the records of each collection in the order in which they
\* are validated, each with the kind of value it must hold
FieldOrder(coll) ==
  IF coll = "jobs"
    THEN << <<"id", "text">>, <<"name", "text">>, <<"client", "text">>,
            <<"defaultHourlyRate", "number">>, <<"active", "boolean">>,
            <<"createdAt", "date">> >>
  ELSE IF coll = "workEntries"
    THEN << <<"id", "text">>, <<"jobId", "text">>, <<"date", "text">>,
            <<"startTime", "date">>, <<"endTime", "date">>,
            <<"createdAt", "date">>, <<"hourlyRateUsed", "number">>,
            <<"kilometers", "number">>, <<"kmRateUsed", "number">>,
            <<"laborTotal", "number">>, <<"kmTotal", "number">>,
            <<"expensesTotal", "number">>, <<"grandTotal", "number">> >>
  ELSE << <<"id", "text">>, <<"workEntryId", "text">>,
          <<"category", "text">>, <<"amount", "number">>,
          <<"createdAt", "date">> >>

FieldOk(v, kind) ==
  IF kind = "text" THEN v.ty = "string" /\ v # Str("")
  ELSE IF kind = "number" THEN v.ty = "number" /\ v.s = ""
  ELSE IF kind = "boolean" THEN v.ty = "boolean"
  ELSE DateParses(v)

\* the least element of a non-empty set of numbers
Least(S) == CHOOSE x \in S : \A y \in S : x <= y

\* <<rule, collection, index, field>> of the first fault of a record array
RecordFault(coll, items) ==
  LET bad(i) == IF ~IsObject(items[i]) THEN {0}
                ELSE {k \in 1..Len(FieldOrder(coll)) :
                        ~FieldOk(Get(items[i], FieldOrder(coll)[k][1]),
                                 FieldOrder(coll)[k][2])}
      faulty == {i \in 1..Len(items) : bad(i) # {}}
  IN  IF faulty = {} THEN <<"none", "", 0, "">>
      ELSE LET i == Least(faulty)
               k == Least(bad(i))
           IN  IF k = 0 THEN <<"notObject", coll, i - 1, "">>
               ELSE <<"field", coll, i - 1, FieldOrder(coll)[k][1]>>

\* the calculation functions throw for work entry r
CalculationThrows(r) ==
  LET hours == calculateDurationInHours(Get(r, "startTime"), Get(r, "endTime"))
  IN  \/ ~hours.ok
      \/ Get(r, "hourlyRateUsed").n < 0
      \/ Get(r, "kilometers").n < 0 \/ Get(r, "kmRateUsed").n < 0

\* <<rule, collection, index, field>> of the first fault of the totals
TotalsFault(doc) ==
  LET items == doc.workEntries.items
      order == <<"laborTotal", "kmTotal", "expensesTotal", "grandTotal">>
      bad(i) == {k \in 1..4 : TotalDiffers(doc, i, order[k])}
      faulty == {i \in 1..Len(items) :
                   CalculationThrows(items[i]) \/ bad(i) # {}}
  IN  IF faulty = {} THEN <<"none", "", 0, "">>
      ELSE LET i == Least(faulty)
           IN  IF CalculationThrows(items[i]) THEN <<"calculation", "", 0, "">>
               ELSE <<"totals", "workEntries", i - 1, order[Least(bad(i))]>>

\* <<rule, collection, index, field>> of the first dangling reference
ReferenceFault(doc) ==
  LET badEntries ==
        {i \in 1..Len(doc.workEntries.items) :
           Get(doc.workEntries.items[i], "jobId")
             \notin FieldValues(doc.jobs.items, "id")}
      badExpenses ==
        {i \in 1..Len(doc.expenses.items) :
           Get(doc.expenses.items[i], "workEntryId")
             \notin FieldValues(doc.workEntries.items, "id")}
  IN  IF badEntries # {}
        THEN <<"referential", "workEntries", Least(badEntries) - 1, "jobId">>
      ELSE IF badExpenses # {}
        THEN <<"referential", "expenses", Least(badExpenses) - 1,
               "workEntryId">>
      ELSE <<"none", "", 0, "">>

HasDuplicate(items) ==
  \E i, k \in 1..Len(items) :
    i # k /\ Get(items[i], "id") = Get(items[k], "id")

\* <<rule, collection, index, field>> of the earliest violated import rule
EarliestViolation(doc) ==
  IF ~doc.isObject THEN <<"notJsonObject", "", 0, "">>
  ELSE IF doc.version # Num(1000) THEN <<"version", "", 0, "version">>
  ELSE IF ~DateParses(doc.exportedAt) THEN <<"field", "", 0, "exportedAt">>
  ELSE IF ~doc.jobs.isArray THEN <<"notArray", "jobs", 0, "">>
  ELSE IF ~doc.workEntries.isArray THEN <<"notArray", "workEntries", 0, "">>
  ELSE IF ~doc.expenses.isArray THEN <<"notArray", "expenses", 0, "">>
  ELSE IF RecordFault("jobs", doc.jobs.items)[1] # "none"
    THEN RecordFault("jobs", doc.jobs.items)
  ELSE IF RecordFault("workEntries", doc.workEntries.items)[1] # "none"
    THEN RecordFault("workEntries", doc.workEntries.items)
  ELSE IF RecordFault("expenses", doc.expenses.items)[1] # "none"
    THEN RecordFault("expenses", doc.expenses.items)
  ELSE IF HasDuplicate(doc.jobs.items) THEN <<"duplicateId", "jobs", 0, "id">>
  ELSE IF HasDuplicate(doc.workEntries.items)
    THEN <<"duplicateId", "workEntries", 0, "id">>
  ELSE IF HasDuplicate(doc.expenses.items)
    THEN <<"duplicateId", "expenses", 0, "id">>
  ELSE IF ReferenceFault(doc)[1] # "none" THEN ReferenceFault(doc)
  ELSE TotalsFault(doc)

\* C20: the error importFullBackup raises is the one of the earliest
\* violated rule in the order top-level shape, record fields (jobs, work
\* entries, expenses, by index, fields in their order), duplicate ids,
\* referential integrity, totals; it names the record kind, index and field.
C20_ValidationOrder ==
  imp.pc = "failed" =>
    <<imp.err.rule, imp.err.coll, imp.err.index, imp.err.field>>
      = EarliestViolation(imp.doc)

\* what a field of a given kind must hold as to presence, primitive type,
\* finiteness and parseability (emptiness of a text is not a matter of shape)
ShapeOk(v, kind) ==
  IF kind = "text" THEN v.ty = "string"
  ELSE IF kind = "number" THEN v.ty = "number" /\ v.s = ""
  ELSE IF kind = "boolean" THEN v.ty = "boolean"
  ELSE DateParses(v)

\* record i of collection coll of the document is not an object, lacks a
\* required field or holds a value of the wrong shape in one
RecordShapeFault(doc, coll, i) ==
  \/ ~IsObject(doc[coll].items[i])
  \/ \E k \in 1..Len(FieldOrder(coll)) :
       ~ShapeOk(Get(doc[coll].items[i], FieldOrder(coll)[k][1]),
                FieldOrder(coll)[k][2])

ShapeFault(doc) ==
  /\ doc.isObject
  /\ \/ ~DateParses(doc.exportedAt)
     \/ \E coll \in {"jobs", "workEntries", "expenses"} :
          \E i \in 1..Len(doc[coll].items) : RecordShapeFault(doc, coll, i)

C22_EmptyTextRejected ==
  (imp.pc # "idle" /\ EmptyRequiredText(imp.doc)) => imp.pc = "failed"

(***************************************************************************)
(* Properties of the export (checked under SpecExport)                     *)
(***************************************************************************)
\* the records of a store, as the array getAll() returns
SameContent(items, store) ==
  /\ Len(items) = Cardinality(store)
  /\ \A r \in store : \E i \in 1..Len(items) : items[i] = r

\* sum of the amounts of the expenses of an array that name work entry id
ExpensesOf(items, id) ==
  AmountsUpTo(items, id, Len(items))

\* C23: the jobs, workEntries and expenses of the document returned by
\* exportFullBackup are the content the three collections had at one
\* instant, that of the start of its transaction, whatever is committed
\* while it runs: every expense of the document has its work entry in the
\* document, and every work entry has the expenses committed with it (its
\* expensesTotal is the sum of their amounts).
C23_ExportSnapshot ==
  exp.pc = "done" =>
    /\ SameContent(exp.doc.jobs.items, exp.snap[1])
    /\ SameContent(exp.doc.workEntries.items, exp.snap[2])
    /\ SameContent(exp.doc.expenses.items, exp.snap[3])
    /\ \A i \in 1..Len(exp.doc.expenses.items) :
         exp.doc.expenses.items[i].workEntryId
           \in FieldValues(exp.doc.workEntries.items, "id")
    /\ \A i \in 1..Len(exp.doc.workEntries.items) :
         exp.doc.workEntries.items[i].expensesTotal.n
           = ExpensesOf(exp.doc.expenses.items,
                        exp.doc.workEntries.items[i].id)

\* an export returned a document with a work entry and its expense although
\* a transaction committed while it ran had changed both collections
C23_Witness ==
  /\ exp.pc = "done"
  /\ exp.doc.workEntries.items # <<>> /\ exp.doc.expenses.items # <<>>
  /\ workEntries # exp.snap[2] /\ expenses # exp.snap[3]

(***************************************************************************)
(* Properties of the repositories (checked under SpecRepo)                 *)
(***************************************************************************)
\* the object store a repository call was made on, before and after it
PriorOf(store) ==
  IF store = "jobs" THEN repo.prior[1]
  ELSE IF store = "workEntries" THEN repo.prior[2]
  ELSE repo.prior[3]
NowOf(store) ==
  IF store = "jobs" THEN jobs
  ELSE IF store = "workEntries" THEN workEntries
  ELSE expenses

\* C24: in each of the three repositories, update of a record whose id is
\* not stored fails with the not-found error and inserts nothing, every
\* collection staying as it was; update of a stored id leaves that record
\* as given and every other record, and the other collections, as they were.
C24_RepositoryUpdate ==
  repo.op = "update" =>
    IF \E r \in PriorOf(repo.store) : r.id = repo.rec.id
      THEN /\ repo.pc = "done"
           /\ repo.rec \in NowOf(repo.store)
           /\ {r \in NowOf(repo.store) : r.id # repo.rec.id}
                = {r \in PriorOf(repo.store) : r.id # repo.rec.id}
           /\ Cardinality(NowOf(repo.store))
                = Cardinality(PriorOf(repo.store))
           /\ \A other \in {"jobs", "workEntries", "expenses"} \ {repo.store} :
                NowOf(other) = PriorOf(other)
      ELSE /\ repo.pc = "thrown"
           /\ repo.err \in {"JobNotFound", "WorkEntryNotFound",
                            "ExpenseNotFound"}
           /\ Store = repo.prior

\* update of a job whose id had been generated and removed, over a store
\* that holds another job, was refused
C24_Witness ==
  /\ repo.op = "update" /\ repo.pc = "thrown" /\ repo.store = "jobs"
  /\ repo.rec.id.n <= uuid
  /\ jobs # {} /\ Store = repo.prior

\* update of one of two stored jobs returned
C24_OverwriteWitness ==
  /\ repo.op = "update" /\ repo.pc = "done" /\ repo.store = "jobs"
  /\ Cardinality(jobs) = 2 /\ repo.rec \notin repo.prior[1]

\* C25: an operation of the job repository changes neither the workEntries
\* nor the expenses collection: after an update of a job's rate every work
\* entry has the rates and totals it had, and remove of a job that work
\* entries reference succeeds and leaves them and their expenses stored.
C25_JobOperationsFrame ==
  (repo.pc # "idle" /\ repo.store = "jobs") =>
    /\ workEntries = repo.prior[2]
    /\ expenses = repo.prior[3]
    /\ repo.op = "remove" =>
         /\ repo.pc = "done"
         /\ \A j \in jobs : j.id # repo.rec.id

\* a job was removed that a stored work entry with an expense references
C25_Witness ==
  /\ repo.op = "remove" /\ repo.pc = "done"
  /\ \E j \in repo.prior[1] : j.id = repo.rec.id
  /\ \E w \in workEntries :
       /\ w.jobId = repo.rec.id
       /\ \E e \in expenses : e.workEntryId = w.id

\* the rate of a job was changed that a stored work entry was created with
C25_RateWitness ==
  /\ repo.op = "update" /\ repo.pc = "done" /\ repo.store = "jobs"
  /\ \E w \in workEntries :
       /\ w.jobId = repo.rec.id
       /\ w.hourlyRateUsed # repo.rec.defaultHourlyRate
       /\ w.laborTotal = Num(3000000)

(***************************************************************************)
(* Claims about the calculation module (SpecCalc)                          *)
(***************************************************************************)
\* |x|
Abs(x) == IF x < 0 THEN 0 - x ELSE x

C26_TieWitness ==
  /\ calc.fn = "calculateDurationInHours"
  /\ calc.args = <<Iso(18), Iso(3618)>>
  /\ calc.res = Ret(1000)

\* C27: with both operands >= 0, calculateLaborTotal(hours, rate) and
\* calculateKmTotal(km, rate) return the product rounded to 2 decimals: a
\* number with 2 decimals at most half a hundredth away from hours x rate;
\* with a negative operand they throw the negative-input error naming that
\* operand and return nothing.
C27_RoundedProducts ==
  calc.fn \in {"calculateLaborTotal", "calculateKmTotal"} =>
    LET a == calc.args[1]
        b == calc.args[2]
    IN  IF a < 0 \/ b < 0
        THEN /\ ~calc.res.ok
             /\ calc.fn = "calculateLaborTotal" =>
                  calc.res.err =
                    IF a < 0 THEN "NegativeHours" ELSE "NegativeHourlyRate"
             /\ calc.fn = "calculateKmTotal" =>
                  calc.res.err = IF a < 0 THEN "NegativeKm" ELSE "NegativeKmRate"
        ELSE /\ calc.res.ok
             /\ calc.res.val >= 0
             /\ calc.res.val % 10 = 0
             /\ Abs(1000 * calc.res.val - a * b) <= 5000

\* 1.25 hours at 1.005 an hour, 1.25625, came back as 1.26
C27_Witness ==
  /\ calc.fn = "calculateLaborTotal"
  /\ calc.args = <<1250, 1005>>
  /\ calc.res = Ret(1260)

\* 0.29 km at 99.5 a km, 28.855 halfway between two hundredths, came back
\* as 28.85
C27_TieWitness ==
  /\ calc.fn = "calculateKmTotal"
  /\ calc.args = <<290, 99500>>
  /\ calc.res = Ret(28850)

\* a call with a negative rate threw
C27_NegativeWitness ==
  /\ calc.fn = "calculateLaborTotal"
  /\ calc.args = <<8000, -1000>>
  /\ calc.res = Throw("NegativeHourlyRate")

\* C28: calculateGrandTotal is independent of argument order: for three
\* non-negative values every permutation of them returns the same result,
\* the sum rounded to 2 decimals; with a negative component it throws the
\* negative-input error.
C28_GrandTotalOrderIndependent ==
  calc.fn = "calculateGrandTotal" =>
    IF \E i \in 1..3 : calc.args[i] < 0
    THEN /\ ~calc.res.ok
         /\ calc.res.err \in {"NegativeLaborTotal", "NegativeKmTotal",
                              "NegativeExpensesTotal"}
    ELSE /\ calc.res.ok
         /\ calc.res.val % 10 = 0
         /\ Abs(calc.res.val - (calc.args[1] + calc.args[2] + calc.args[3]))
              <= 5
         /\ \A p \in Permutations(1..3) :
              calculateGrandTotal(calc.args[p[1]], calc.args[p[2]],
                                  calc.args[p[3]]) = calc.res

(***************************************************************************)
(* Claims about hand edits of an export (Spec)                             *)
(***************************************************************************)
\* the document of the import in progress is the file of an export of the
\* store as it was at the call, with its workEntries array emptied
EmptiedExport ==
  /\ imp.doc.isObject
  /\ imp.doc.version = Num(1000)
  /\ DateParses(imp.doc.exportedAt)
  /\ imp.doc.jobs = Arr(JsonItems(GetAll(imp.prior[1])))
  /\ imp.doc.workEntries = Arr(<<>>)
  /\ imp.doc.expenses = Arr(JsonItems(GetAll(imp.prior[3])))

\* C29: importFullBackup accepts an exported document whose workEntries
\* array was replaced by an empty array, its jobs and expenses left as
\* exported; once the import has committed, the store holds the jobs and
\* the expenses of the document and no work entry.
C29_EmptiedExportAccepted ==
  (imp.pc # "idle" /\ EmptiedExport) =>
    /\ imp.pc # "failed"
    /\ imp.pc = "committed" =>
         /\ SameContent(imp.doc.jobs.items, {JsonRecord(j) : j \in jobs})
         /\ SameContent(imp.doc.expenses.items,
                        {JsonRecord(e) : e \in expenses})
         /\ workEntries = {}

(***************************************************************************)
(* Claims about the debug generator (SpecDebug)                            *)
(***************************************************************************)
\* the import in progress is of the file of the last export, made of a
\* store holding generated entries, and was called on a cleared database
GeneratedRoundTrip ==
  /\ exp.pc = "done"
  /\ imp.doc = downloadBackupFile(exp.doc)
  /\ exp.doc.workEntries.items # <<>>
  /\ Len(exp.doc.expenses.items) = 2 * Len(exp.doc.workEntries.items)
  /\ imp.prior = <<{}, {}, {}>>

\* C30: for a store populated by the debug generator, export, clearing of
\* the database and import of the export succeeds and restores the data:
\* the import does not fail, and after its commit the numbers of jobs,
\* work entries and expenses stored are those of the export.
C30_GeneratedRoundTrip ==
  (imp.pc # "idle" /\ GeneratedRoundTrip) =>
    /\ imp.pc # "failed"
    /\ imp.pc = "committed" =>
         /\ Cardinality(jobs) = Len(exp.doc.jobs.items)
         /\ Cardinality(workEntries) = Len(exp.doc.workEntries.items)
         /\ Cardinality(expenses) = Len(exp.doc.expenses.items)

(***************************************************************************)
(* Claims about the work page (SpecWork)                                   *)
(***************************************************************************)
\* the session is persisted exactly while the phase is running or saving
SessionPersisted ==
  /\ work.phase \in {"running", "saving"} =>
       /\ work.session # NoSession
       /\ work.item = persistSession(work.session)
       /\ loadPersistedSession(work.item) = work.session
  /\ work.phase = "idle" => work.item = NoSession

\* a reload made while the phase is running or saving resumes in phase
\* running with the session as recorded at START
ReloadResumes ==
  (work'.reloads # work.reloads /\ work.phase \in {"running", "saving"}) =>
    /\ work'.phase = "running"
    /\ work'.session = work.session
    /\ work'.item = work.item

\* C31: with local storage available a session is persisted under the
\* session key whenever the phase of the work page is running or saving,
\* and none is persisted when the phase is idle (after a cancel or a
\* successful save); a reload of the page while the phase is running or
\* saving resumes in phase running with the job, rate and startTime
\* originally recorded, so that elapsed time counts from the real start.
C31_SessionPersistence == [](SessionPersisted) /\ [][ReloadResumes]_vars

\* the page was reloaded and runs again on the session started earlier
C31_Witness ==
  /\ work.reloads = 1 /\ work.phase = "running"
  /\ work.session.startTime = Iso(0) /\ clock = 1
  /\ work.session.hourlyRate = Num(650000)

\* the step removes the persisted session
ItemRemoved == work.item # NoSession /\ work'.item = NoSession

\* the awaited createWorkEntry settles in this step, the page staying mounted
SaveSettles == work.saving /\ ~work'.saving /\ work'.reloads = work.reloads

\* the persisted session is removed only by a save whose createWorkEntry
\* stored the entry, or by a cancel, which stores nothing
RemovedBySaveOrCancel ==
  ItemRemoved =>
    \/ SaveSettles /\ workEntries' # workEntries
    \/ /\ ~work.saving /\ work.phase \in {"running", "saving"}
       /\ work'.phase = "idle" /\ work'.session = NoSession
       /\ UNCHANGED <<jobs, workEntries, expenses>>

\* a failed createWorkEntry leaves the session persisted and the save form
\* as entered, ready for another attempt
FailedSaveKeeps ==
  (SaveSettles /\ workEntries' = workEntries) =>
    /\ work'.item = work.item /\ work'.item # NoSession
    /\ work'.phase = "saving"
    /\ work'.session = work.session /\ work'.session # NoSession
    /\ work'.endTime = work.endTime /\ work'.form = work.form
    /\ UNCHANGED <<jobs, expenses>>

\* a successful createWorkEntry ends the session
SuccessfulSaveClears ==
  (SaveSettles /\ workEntries' # workEntries) =>
    /\ work'.phase = "idle" /\ work'.item = NoSession
    /\ work'.session = NoSession

\* C32: the persisted work session is removed only by a successful
\* createWorkEntry or by cancel; when createWorkEntry fails during save the
\* session stays persisted and the phase stays saving with the entered
\* data; the saving flag always returns to false after the attempt, so that
\* the save can be retried; after a successful save the phase is idle and
\* no session is persisted.
C32_SaveAndCancel ==
  /\ [][RemovedBySaveOrCancel /\ FailedSaveKeeps /\ SuccessfulSaveClears]_vars
  /\ (work.saving ~> ~work.saving)

\* a save with an expense row has failed and can be tried again
C32_Witness ==
  /\ work.error = "SaveFailed" /\ work.phase = "saving" /\ ~work.saving
  /\ work.item = persistSession(work.session)
  /\ Len(work.form.rows) = 1 /\ workEntries = {}

(***************************************************************************)
(* Claims about the entry service over IndexedDB (SpecEntry)               *)
(***************************************************************************)
\* the transaction of the updateWorkEntry call commits in this step
UpdateCommits == upd.pc = "tx" /\ upd'.pc = "done"

\* the expenses stored for the entry of the call after the step
ExpensesOfUpdated == ByWorkEntryId(expenses', upd.id)

\* the updated entry has the id of the call, the createdAt it had and
\* every other field from the input of the call
EntryOverwritten ==
  /\ Cardinality({e \in workEntries' : e.id = upd.id}) = 1
  /\ \A e \in workEntries' : e.id = upd.id =>
       /\ \A old \in workEntries : old.id = upd.id =>
            e.createdAt = old.createdAt
       /\ \A f \in {"date", "startTime", "endTime", "jobId", "hourlyRateUsed",
                    "kilometers", "kmRateUsed"} : e[f] = upd.input[f]
       /\ e.expensesTotal = Num(SumAmounts(upd.exps))
       /\ e = EntryRecord(upd.id, upd.input,
                          ComputeTotals(upd.input, upd.exps), e.createdAt)

\* the expenses of the entry are the inputs of the call, one record under
\* an id of its own for each, none of them an id stored before
ExpensesReplaced ==
  /\ Cardinality(ExpensesOfUpdated) = Len(upd.exps)
  /\ Cardinality({x.id : x \in ExpensesOfUpdated}) = Len(upd.exps)
  /\ \A i \in 1..Len(upd.exps) : \E x \in ExpensesOfUpdated :
       /\ x.id = Uuid(uuid - Len(upd.exps) + i)
       /\ x.amount = upd.exps[i].amount
       /\ x.category = upd.exps[i].category
       /\ x.receiptImageUrl = upd.exps[i].receiptImageUrl
  /\ \A x \in ExpensesOfUpdated :
       x.id \notin {y.id : y \in jobs \cup workEntries \cup expenses}
  /\ ByWorkEntryId(expenses, upd.id) \cap expenses' = {}
  /\ \A old \in ByWorkEntryId(expenses, upd.id) :
       old.id \notin {x.id : x \in expenses'}

\* nothing else in the store changes
OthersUnchanged ==
  /\ {x \in expenses' : x.workEntryId # upd.id}
       = {x \in expenses : x.workEntryId # upd.id}
  /\ {e \in workEntries' : e.id # upd.id}
       = {e \in workEntries : e.id # upd.id}
  /\ jobs' = jobs

\* C33: a successful updateWorkEntry keeps the id and the original
\* createdAt of the WorkEntry, overwrites all its other fields from the new
\* input and replaces its Expenses as a set: afterwards the Expenses stored
\* with that workEntryId are exactly the new inputs, each under a freshly
\* generated id, none of the Expenses stored for the entry before remains,
\* and the Expenses of other entries are unchanged.
C33_UpdateReplacesExpenses ==
  [][UpdateCommits =>
       EntryOverwritten /\ ExpensesReplaced /\ OthersUnchanged]_vars

\* entry 102 of the imported store was updated with two expenses, its old
\* expense 103 is gone and the expense of entry 104 is still stored
C33_Witness ==
  /\ upd.pc = "done" /\ upd.id = Uuid(102) /\ del.pc = "idle" /\ clock = 1
  /\ {x.id : x \in expenses} = {Uuid(1), Uuid(2), Uuid(105)}
  /\ \E e \in workEntries :
       /\ e.id = Uuid(102) /\ e.createdAt = DateObj(0)
       /\ e.expensesTotal = Num(150004)
  /\ \A x \in ByWorkEntryId(expenses, Uuid(102)) : x.createdAt = DateObj(1)

(***************************************************************************)
(* Claims about the receipt paths of the Supabase service (SpecRemote)     *)
(***************************************************************************)
\* the expense rows stored under the ids generated by the call in progress
RowsOfCall ==
  {r \in expense_rows :
     \E i \in 1..Len(svc.exps) : r.id = Uuid(svc.first + i)}

\* every stored row of the call refers to the file uploaded for its own
\* expense, or to none, and no two rows refer to the same file
ReceiptPathsAligned ==
  svc.op \in {"create", "update"} =>
    /\ \A i \in 1..Len(svc.exps) : \A r \in RowsOfCall :
         r.id = Uuid(svc.first + i) =>
           /\ r.work_entry_id = svc.id
           /\ IF svc.exps[i].file
                THEN /\ r.receipt_url
                          = receiptPath(UserId, svc.id, Uuid(svc.first + i))
                     /\ r.receipt_url \in Range(svc.uploaded)
                ELSE r.receipt_url = NoPath
    /\ \A r, q \in RowsOfCall :
         (r.id # q.id /\ r.receipt_url # NoPath) =>
           r.receipt_url # q.receipt_url
    /\ \A k, l \in 1..Len(svc.uploaded) :
         k # l => svc.uploaded[k] # svc.uploaded[l]
    /\ \A k \in 1..Len(svc.uploaded) : \E i \in 1..Len(svc.exps) :
         /\ svc.exps[i].file
         /\ svc.uploaded[k]
              = receiptPath(UserId, svc.id, Uuid(svc.first + i))

\* the ids are generated before the first upload or database call and
\* stay the ids of the call
IdsFixedUpFront ==
  /\ svc.pc = "idle" =>
       UNCHANGED <<work_entries, expense_rows, bucket>>
  /\ svc.pc # "idle" => uuid' = uuid
  /\ (svc.pc # "idle" /\ svc'.pc # "idle") =>
       /\ svc'.id = svc.id /\ svc'.first = svc.first
       /\ svc'.exps = svc.exps

\* C34: in createWorkEntry and updateWorkEntry the entry id and one id per
\* expense are fixed before the first upload or store call, and the receipt
\* references stay aligned with them: for every expense input with a file
\* the stored receipt path is the path {owner}/{workEntryId}/{expenseId}
\* uploaded for that same expense, for every input without a file it is
\* empty, and two expenses of one call never share a path.
C34_ReceiptPaths == [](ReceiptPathsAligned) /\ [][IdsFixedUpFront]_vars

\* a createWorkEntry with two receipts has stored both expense rows
C34_Witness ==
  /\ svc.op = "create" /\ svc.pc = "done" /\ Len(svc.exps) = 2
  /\ \A i \in 1..2 : svc.exps[i].file
  /\ Cardinality(RowsOfCall) = 2 /\ Len(svc.uploaded) = 2
  /\ Range(svc.uploaded) \subseteq bucket

\* an updateWorkEntry has replaced a receipt by an expense without file
C34_UpdateWitness ==
  /\ svc.op = "update" /\ svc.pc = "done" /\ Len(svc.exps) = 1
  /\ ~svc.exps[1].file /\ svc.old # {}
  /\ \E r \in RowsOfCall : r.receipt_url = NoPath

(***************************************************************************)
(* Claims about the store after an import (Spec)                           *)
(***************************************************************************)
\* no two records of a collection share an id
UniqueIds(store) == \A r, q \in store : r.id = q.id => r = q

\* the four totals of a stored work entry, recomputed from its raw fields
\* and the stored expenses that name it
RecomputedTotals(e) ==
  LET duration == calculateDurationInHours(e.startTime, e.endTime)
      labor == calculateLaborTotal(duration.val, e.hourlyRateUsed.n)
      km == calculateKmTotal(e.kilometers.n, e.kmRateUsed.n)
      expensesTotal == Round2(expenseSumByEntry(GetAll(expenses), e.id))
      grand == calculateGrandTotal(labor.val, km.val, expensesTotal)
  IN  [ok |-> duration.ok /\ labor.ok /\ km.ok /\ grand.ok,
       laborTotal |-> Num(labor.val), kmTotal |-> Num(km.val),
       expensesTotal |-> Num(expensesTotal), grandTotal |-> Num(grand.val)]

StoreIntegrity ==
  /\ UniqueIds(jobs) /\ UniqueIds(workEntries) /\ UniqueIds(expenses)
  /\ \A e \in workEntries : \E j \in jobs : j.id = e.jobId
  /\ \A x \in expenses : \E e \in workEntries : e.id = x.workEntryId
  /\ \A e \in workEntries :
       /\ RecomputedTotals(e).ok
       /\ \A f \in {"laborTotal", "kmTotal", "expensesTotal", "grandTotal"} :
            e[f] = RecomputedTotals(e)[f]

\* C35: immediately after any successful importFullBackup the store
\* satisfies all integrity rules at once: ids are unique within each
\* collection, every WorkEntry's jobId names a stored Job, every Expense's
\* workEntryId names a stored WorkEntry, and every WorkEntry's four stored
\* totals equal their recomputation from its raw fields and its stored
\* Expenses.
C35_IntegrityAfterImport == imp.pc = "committed" => StoreIntegrity

\* a field that holds a negative number
Negative(r, f) == Get(r, f).ty = "number" /\ Get(r, f).s = "" /\ Get(r, f).n < 0

\* the range constraints of the data model on the three collections
RangeConstraints(js, es, xs) ==
  /\ \A j \in js : ~Negative(j, "defaultHourlyRate")
  /\ \A e \in es : /\ ~Negative(e, "hourlyRateUsed")
                   /\ ~Negative(e, "kmRateUsed")
                   /\ ~Negative(e, "kilometers")
  /\ \A x \in xs : ~Negative(x, "amount")

\* the records of an array of the document that are objects
ObjectsOf(arr) == {r \in Range(arr.items) : r # NonObject}

\* C36: every record stored by a successful importFullBackup satisfies the
\* range constraints of the data model (Job.defaultHourlyRate,
\* WorkEntry.hourlyRateUsed, kmRateUsed, kilometers and Expense.amount are
\* not negative); a document with a negative value in one of these fields
\* is rejected.
C36_RangeConstraints ==
  /\ imp.pc = "committed" => RangeConstraints(jobs, workEntries, expenses)
  /\ (imp.pc # "idle" /\ imp.doc.isObject
      /\ ~RangeConstraints(ObjectsOf(imp.doc.jobs),
                           ObjectsOf(imp.doc.workEntries),
                           ObjectsOf(imp.doc.expenses)))
       => imp.pc = "failed"

\* C37: every WorkEntry in the store has endTime strictly after startTime,
\* after any sequence of createWorkEntry, updateWorkEntry and
\* importFullBackup calls: an input or a document record whose endTime
\* equals its startTime is never stored.
C37_EndAfterStart ==
  \A e \in workEntries : DateParse(e.endTime).n > DateParse(e.startTime).n

\* C38: under arbitrary interleaving of an updateWorkEntry(id) and a
\* deleteWorkEntry(id) for the same id, once both have finished and the
\* delete has committed, neither a WorkEntry with that id nor an Expense
\* with that workEntryId is stored: an update whose existence check ran
\* before the delete does not re-insert the deleted entry or attach
\* Expenses to it.
C38_DeleteWinsOverUpdate ==
  (upd.pc \in {"done", "thrown"} /\ del.pc = "done" /\ del.id = upd.id) =>
    /\ \A e \in workEntries : e.id # del.id
    /\ \A x \in expenses : x.workEntryId # del.id

====
